---- MODULE Spec2Model ----
(***************************************************************************)
(* A model of ComfyUI-Freepik: the HTTP client (api/client.py), the task   *)
(* orchestrator (api/tasks.py), the result cache (utils/cache.py) and the  *)
(* node entry points (nodes/...).                                          *)
(*                                                                         *)
(* Python values are modelled as follows.  A JSON value is a record with a *)
(* type tag t (JNone, JStr, JList, JDict); a dict key that is not present  *)
(* is the marker Absent.  An operation's result is a record with ok = TRUE *)
(* and the value returned, or ok = FALSE and the exception raised.         *)
(***************************************************************************)
EXTENDS Integers, Sequences, FiniteSets, TLC

VARIABLES
    api_key,        \* FreepikAPIClient.api_key
    net,            \* the HTTP requests issued so far by the running operation
    op,             \* the client operation called last (SpecClient)
    ret,            \* what that operation returned or raised
    pc,             \* position of execute_and_wait
    max_wait,       \* its argument max_wait (seconds)
    poll_interval,  \* its argument poll_interval (seconds)
    latency,        \* duration of one status poll (ticks)
    remote,         \* the remote service: what create and each poll answer
    task_id,        \* local task_id of execute_and_wait
    now,            \* time.time(), in ticks
    start_time,     \* local start_time
    elapsed,        \* local elapsed (whole seconds)
    polls,          \* number of get_task_status calls made
    sleeps,         \* number of time.sleep(poll_interval) calls made
    status,         \* local status: the last parsed poll response
    downloads,      \* arguments of the download_image calls made
    outcome,        \* what execute_and_wait returned or raised
    cache,          \* the cache directory: per key, the image and metadata files
    today,          \* datetime.now(), in days
    call,           \* the node call running or made last: arguments, day
    calls,          \* number of node calls made
    node_ret,       \* what the last node call returned
    progress_callback,  \* execute_and_wait's argument: a callback is given
    reports,        \* the calls made to the progress callback
    batch,          \* execute_batch: its arguments, position and results
    peer,           \* a second execute_and_wait call running concurrently
    HAS_SERVER,     \* upscaler_nodes.HAS_SERVER
    confirmation_responses,  \* upscaler_nodes._confirmation_responses
    confirmation_lock,       \* upscaler_nodes._confirmation_lock: its holder
    waiter,         \* the request_confirmation calls, one per thread
    handler,        \* the confirm_response_handler call being served
    clock,          \* time.time() of the confirmation dialog, in steps
    upscale,        \* the upscaler node call running or made last
    fp,             \* _get_cache_key: the requests given and the keys made
    job             \* the cache operations running, one per thread

clientVars == <<api_key, net, op, ret>>
orchVars == <<pc, max_wait, poll_interval, latency, remote, task_id, now,
              start_time, elapsed, polls, sleeps, status, downloads, outcome>>
nodeVars == <<cache, today, call, calls, node_ret>>
callVars == <<progress_callback, batch, peer>>
cacheVars == <<fp, job>>
confirmVars == <<HAS_SERVER, confirmation_responses, confirmation_lock, waiter,
                 handler, clock, upscale>>
vars == <<api_key, net, op, ret, pc, max_wait, poll_interval, latency, remote,
          task_id, now, start_time, elapsed, polls, sleeps, status, downloads,
          outcome, cache, today, call, calls, node_ret, progress_callback,
          reports, batch, peer, HAS_SERVER, confirmation_responses,
          confirmation_lock, waiter, handler, clock, upscale, fp, job>>

---------------------------------------------------------------------------
(* Python values *)

Absent == "<absent>"          \* a key that is not in a dict
PyNone == "<None>"            \* None, where a string is expected
NoneStr == "None"             \* str(None), as an f-string renders None
Str(x) == IF x = PyNone THEN NoneStr ELSE x

JNone == [t |-> "none", s |-> "", items |-> <<>>, url |-> Absent,
          image_url |-> Absent, other |-> FALSE]
JStr(x) == [JNone EXCEPT !.t = "str", !.s = x]
JList(xs) == [JNone EXCEPT !.t = "list", !.items = xs]
JDict(u, iu, o) == [JNone EXCEPT !.t = "dict", !.url = u, !.image_url = iu,
                                 !.other = o]

\* bool(v): None, "", [] and {} are falsy.
Truthy(v) ==
    CASE v.t = "none" -> FALSE
      [] v.t = "str"  -> v.s # ""
      [] v.t = "list" -> Len(v.items) > 0
      [] v.t = "dict" -> v.url # Absent \/ v.image_url # Absent \/ v.other

Raise(type, msg, detail) ==
    [ok |-> FALSE, type |-> type, msg |-> msg, detail |-> detail]
Return(v) == [ok |-> TRUE, val |-> v]
NoResult == [ok |-> TRUE, val |-> "<none yet>"]

---------------------------------------------------------------------------
(* api/client.py *)

NoKey == PyNone               \* api_key = None (the constructor's default)
GoodKeys == {"key-A", "key-B"}
ApiKeys == {NoKey, ""} \cup GoodKeys

\* _get_headers: `if not self.api_key: raise ValueError`.
get_headers(key) ==
    IF key = NoKey \/ key = ""
    THEN Raise("ValueError", "API key not set. Use set_api_key() method.", "")
    ELSE Return(key)

\* One HTTP request as the session sends it: the method, the URL and the
\* x-freepik-api-key header (NoKey when the header is not sent).
Request(method, url, key) == [method |-> method, url |-> url, key |-> key]

\* What the transport answers to one request.
HttpOutcomes == {"200", "404", "conn"}

\* post / get after the request was sent: raise_for_status and the two
\* except clauses.  who tags the answer with the place that gave it.
http_result(answer, body, who) ==
    CASE answer = "200"  -> Return(body)
      [] answer = "conn" -> Raise("Exception", "Request failed", who)
      [] OTHER           -> Raise("Exception", "HTTP Error", who)

\* post(endpoint, data, files): the headers are built before the request.
\* Returns <<result, requests issued>>.
post(key, endpoint, answer, body) ==
    IF ~get_headers(key).ok
    THEN <<get_headers(key), <<>>>>
    ELSE <<http_result(answer, body, endpoint),
           <<Request("POST", endpoint, key)>>>>

\* get(endpoint).
get(key, endpoint, answer, body) ==
    IF ~get_headers(key).ok
    THEN <<get_headers(key), <<>>>>
    ELSE <<http_result(answer, body, endpoint),
           <<Request("GET", endpoint, key)>>>>

\* The task identifiers a create response may carry, one per location, so
\* that the location an identifier was read from can be told.
IdDataTaskId == "T-data.task_id"
IdDataId == "T-data.id"
IdTaskId == "T-task_id"
IdId == "T-id"

\* The create responses: with a data object (holding task_id, id, both or
\* neither) or without, and with or without the top-level keys.
CreateResponses ==
    { [hasData |-> hd, data_task_id |-> a, data_id |-> b, task_id |-> c,
       id |-> d] :
        hd \in BOOLEAN, a \in {Absent, IdDataTaskId}, b \in {Absent, IdDataId},
        c \in {Absent, IdTaskId}, d \in {Absent, IdId} }
    \ { r \in [hasData : {FALSE}, data_task_id : {Absent, IdDataTaskId},
               data_id : {Absent, IdDataId}, task_id : {Absent, IdTaskId},
               id : {Absent, IdId}] :
          r.data_task_id # Absent \/ r.data_id # Absent }

\* create_task after post returned response: the if/elif chain.  A function
\* that falls off its end returns None.
extract_task_id(response) ==
    IF response.hasData
    THEN IF response.data_task_id # Absent THEN Return(response.data_task_id)
         ELSE IF response.data_id # Absent THEN Return(response.data_id)
         ELSE Return(NoneStr)
    ELSE IF response.task_id # Absent THEN Return(response.task_id)
    ELSE IF response.id # Absent THEN Return(response.id)
    ELSE Raise("Exception", "Could not extract task_id from response", "")

\* create_task(endpoint, params, files).
create_task(key, endpoint, answer, response) ==
    LET p == post(key, endpoint, answer, response)
    IN  IF p[1].ok THEN <<extract_task_id(p[1].val), p[2]>> ELSE p

\* get_task_status: endpoints_to_try, in the order of the list.
Candidates == <<"/v1/ai/mystic/", "/v1/ai/image-upscaler/", "/v1/ai/task/",
                "/v1/task/">>
NumCandidates == Len(Candidates)

\* A variant that polls the task of the first location, whatever the id given.
StatusEndpoint_first_location(i, tid) == <<Candidates[i], IdDataTaskId>>

StatusEndpoint(i, tid) == <<Candidates[i], tid>>

\* The for loop of get_task_status from candidate i on, last_error being the
\* error of the candidate before.  answers[i] is what the transport answers
\* for candidate i; body is the JSON document of a 200.
RECURSIVE try_endpoints(_, _, _, _, _, _, _)
try_endpoints(key, tid, answers, body, i, last_error, sent) ==
    IF i > NumCandidates
    THEN <<last_error, sent>>
    ELSE LET g == get(key, StatusEndpoint(i, tid), answers[i], body)
         IN  IF g[1].ok
             THEN <<g[1], sent \o g[2]>>
             ELSE try_endpoints(key, tid, answers, body, i + 1, g[1],
                                sent \o g[2])

\* A variant that raises the first candidate's error, not the last one's.
RECURSIVE try_endpoints_first_error(_, _, _, _, _, _, _)
try_endpoints_first_error(key, tid, answers, body, i, first_error, sent) ==
    IF i > NumCandidates
    THEN <<first_error, sent>>
    ELSE LET g == get(key, StatusEndpoint(i, tid), answers[i], body)
         IN  IF g[1].ok
             THEN <<g[1], sent \o g[2]>>
             ELSE try_endpoints_first_error(key, tid, answers, body, i + 1,
                                            IF i = 1 THEN g[1] ELSE first_error,
                                            sent \o g[2])

get_task_status_first_error(key, tid, answers, body) ==
    try_endpoints_first_error(key, tid, answers, body, 1, Raise("TypeError",
        "exceptions must derive from BaseException", ""), <<>>)

get_task_status(key, tid, answers, body) ==
    try_endpoints(key, tid, answers, body, 1, Raise("TypeError",
        "exceptions must derive from BaseException", ""), <<>>)

\* URLs and what is stored behind them.
UrlA == "https://cdn.example/a.png"
UrlB == "https://cdn.example/b.png"
UrlGone == "https://cdn.example/gone.png"
UrlText == "https://cdn.example/notes.txt"
Urls == {UrlA, UrlB, UrlGone, UrlText}

\* The bytes the remote store serves for a URL ("" : no such object).
Content(url) ==
    CASE url = UrlA    -> "png-bytes-A"
      [] url = UrlB    -> "png-bytes-B"
      [] url = UrlText -> "text-bytes"
      [] OTHER         -> ""

\* download_image(url): no header is built; session.get refuses a URL that is
\* no http(s) URL before sending anything (an exception, wrapped like every
\* other); a sent request is answered with the object or a 404.
\* url is a JSON value.
download_image(key, url) ==
    IF url.t # "str" \/ url.s \notin Urls
    THEN <<Raise("Exception", "Failed to download image", "invalid URL"), <<>>>>
    ELSE IF Content(url.s) = ""
    THEN <<Raise("Exception", "Failed to download image", "404"),
           <<Request("GET", url.s, NoKey)>>>>
    ELSE <<Return(Content(url.s)), <<Request("GET", url.s, NoKey)>>>>

---------------------------------------------------------------------------
(* api/tasks.py *)

\* A variant that compares the status as sent, without lowering it.
Lower_as_sent(s) == s

\* str.lower(), on the status strings the remote may send.
Lower(s) ==
    CASE s = "QUEUED"      -> "queued"
      [] s = "In_Progress" -> "in_progress"
      [] s = "COMPLETED"   -> "completed"
      [] s = "Success"     -> "success"
      [] s = "FAILED"      -> "failed"
      [] s = "Error"       -> "error"
      [] s = "Cancelled"   -> "cancelled"
      [] OTHER             -> s

\* s[0] of a non-empty string: its first character.
FirstChar(s) ==
    CASE s \in Urls -> "h"
      [] OTHER      -> s

\* state_map.get(status, status)
state_map(s) ==
    CASE s = "created"     -> "created"
      [] s = "in_progress" -> "in_progress"
      [] s = "completed"   -> "completed"
      [] s = "failed"      -> "failed"
      [] s = "error"       -> "failed"
      [] OTHER             -> s

\* A status response: env says whether it has the 'data' key; status, error
\* and generated are the keys of data (Absent: no such key; PyNone: null).
\* Without the envelope the same fields are the top-level keys.
StatusResponse(env, st, hasGen, gen, err) ==
    [env |-> env, status |-> st, hasGenerated |-> hasGen, generated |-> gen,
     error |-> err]

\* A variant that takes the last element of a list, not the first.
first_generated_last(gen) ==
    CASE gen.t = "list" -> Return(gen.items[Len(gen.items)])
      [] gen.t = "str"  -> Return(JStr(FirstChar(gen.s)))
      [] OTHER          -> Raise("KeyError", "0", "")

\* data['generated'][0]
first_generated(gen) ==
    CASE gen.t = "list" -> Return(gen.items[1])
      [] gen.t = "str"  -> Return(JStr(FirstChar(gen.s)))
      [] OTHER          -> Raise("KeyError", "0", "")

\* _parse_status(response).  The lines after `return parsed` are never run.
parse_status(response) ==
    IF ~response.env
    THEN Raise("UnboundLocalError",
               "local variable 'status' referenced before assignment", "")
    ELSE IF response.status = PyNone
    THEN Raise("AttributeError", "'NoneType' object has no attribute 'lower'", "")
    ELSE LET st == Lower(IF response.status = Absent THEN ""
                         ELSE response.status)
             out == IF response.hasGenerated /\ Truthy(response.generated)
                    THEN first_generated(response.generated)
                    ELSE Return(JNone)
         IN  IF ~out.ok THEN out
             ELSE Return([state |-> state_map(st),
                          output_url |-> out.val,
                          error |-> IF response.error = Absent THEN PyNone
                                    ELSE response.error])

NoStatus == [state |-> "<unset>", output_url |-> JNone, error |-> PyNone]

\* A variant of Image.open that takes any bytes there are for an image.
ImageOpen_any_bytes(bytes) ==
    CASE bytes = "png-bytes-B" -> Return("image-B")
      [] bytes = "" -> Raise("UnidentifiedImageError",
                             "cannot identify image file", "")
      [] OTHER -> Return("image-A")

\* Image.open(io.BytesIO(image_bytes))
ImageOpen(bytes) ==
    CASE bytes = "png-bytes-A" -> Return("image-A")
      [] bytes = "png-bytes-B" -> Return("image-B")
      [] OTHER -> Raise("UnidentifiedImageError", "cannot identify image file", "")

\* output_url.get('url', output_url.get('image_url'))
dict_url(d) ==
    IF d.url # Absent THEN JStr(d.url)
    ELSE IF d.image_url # Absent THEN JStr(d.image_url)
    ELSE JNone

\* The argument _download_result passes to download_image, for a truthy
\* output_url: the list and dict unwrapping.
download_arg(output_url) ==
    LET a == IF output_url.t = "list" THEN output_url.items[1] ELSE output_url
    IN  IF a.t = "dict" THEN dict_url(a) ELSE a

\* _download_result(status): <<result, download_image arguments, requests>>.
download_result(key, st) ==
    IF ~Truthy(st.output_url)
    THEN <<Raise("Exception", "No output URL in successful task", ""), <<>>, <<>>>>
    ELSE LET arg == download_arg(st.output_url)
             d == download_image(key, arg)
         IN  IF ~d[1].ok THEN <<d[1], <<arg>>, d[2]>>
             ELSE <<ImageOpen(d[1].val), <<arg>>, d[2]>>

NonTerminalStates == {"pending", "processing", "queued", "created", "in_progress"}
SuccessStates == {"success", "completed"}

\* The if/elif chain of execute_and_wait on the parsed status: what the
\* loop does next.
dispatch(st) ==
    CASE st.state \in SuccessStates     -> "download"
      [] st.state = "failed"            -> "fail"
      [] st.state \in NonTerminalStates -> "sleep"
      [] OTHER                          -> "unknown"

\* status.get('error', 'Unknown error'): parsed always has the key 'error'.
error_msg(st) == st.error

---------------------------------------------------------------------------
(* utils/cache.py *)

DefaultMaxAgeDays == 30

\* json.dumps(params, sort_keys=True, default=str): the keys present, in
\* sorted order, each with its value as JSON text.  A key of params that is
\* Absent is not in the dict.
json_dumps_sorted(params) ==
    LET keys == <<"api", "num_images", "prompt", "resolution", "seed">>
        present == SelectSeq(keys, LAMBDA k : params[k] # Absent)
    IN  [i \in 1..Len(present) |-> <<present[i], params[present[i]]>>]

\* hashlib.md5(...).hexdigest(): a digest, equal for equal texts.
md5(text) == [md5 |-> text]

\* _get_cache_key(params)
get_cache_key(params) == md5(json_dumps_sorted(params))

\* A dict is the sequence of its <<key, value>> pairs in the order they were
\* inserted.  d[key], or Absent; and d after d.update(e).
dict_get(d, key) ==
    IF \E i \in 1..Len(d) : d[i][1] = key
    THEN d[CHOOSE i \in 1..Len(d) : d[i][1] = key][2]
    ELSE Absent
dict_update(d, e) ==
    LET has(x, k) == \E i \in 1..Len(x) : x[i][1] = k
    IN  [i \in 1..Len(d) |-> IF has(e, d[i][1])
                              THEN <<d[i][1], dict_get(e, d[i][1])>>
                              ELSE d[i]]
        \o SelectSeq(e, LAMBDA pr : ~has(d, pr[1]))

\* datetime.isoformat() of a day, a text that is no date, and
\* datetime.fromisoformat of either.
isoformat(day) == [text |-> "iso", day |-> day]
NotADate == [text |-> "yesterday", day |-> 0]
fromisoformat(v) ==
    IF v.text = "iso" THEN Return(v.day)
    ELSE Raise("ValueError", "Invalid isoformat string", v.text)

\* The two files kept for a key.  images/<key>.png: image is what it holds
\* (Absent: no such file) and whole tells whether it was written to its end.
\* metadata/<key>.json: has_meta tells whether it exists, corrupt whether it
\* is no JSON text, metadata is the dict it holds.
CacheEntry(image, whole, has_meta, corrupt, metadata) ==
    [image |-> image, whole |-> whole, has_meta |-> has_meta,
     corrupt |-> corrupt, metadata |-> metadata]
NoEntry == CacheEntry(Absent, FALSE, FALSE, FALSE, <<>>)

\* Lines 91-97: the age of the entry is read from its metadata file; a file
\* that does not parse, or a timestamp that is no date, raises.
read_age(e, t) ==
    IF e.corrupt THEN Raise("JSONDecodeError", "Expecting value", "")
    ELSE LET cached_time == fromisoformat(dict_get(e.metadata, "timestamp"))
         IN  IF cached_time.ok THEN Return(t - cached_time.val)
             ELSE cached_time

\* A variant of has_cached that takes an entry as old as max_age for expired.
has_cached_expiring_at_max_age(c, key, t, max_age) ==
    /\ c[key].image # Absent
    /\ c[key].has_meta
    /\ read_age(c[key], t).ok
    /\ ~(read_age(c[key], t).val >= max_age)

\* has_cached in its two steps on the files e of a key: line 86, both files
\* exist; lines 90-105, the metadata is read and the entry is not too old.
files_exist(e) == e.image # Absent /\ e.has_meta

\* A variant that takes an entry of any age.
not_expired_at_any_age(e, t, max_age) ==
    /\ e.has_meta
    /\ read_age(e, t).ok

not_expired(e, t, max_age) ==
    /\ e.has_meta
    /\ read_age(e, t).ok
    /\ ~(read_age(e, t).val > max_age)

\* has_cached(params), for the key of params, at time t.
has_cached(c, key, t, max_age) ==
    /\ files_exist(c[key])
    /\ not_expired(c[key], t, max_age)

\* What Image.open gives for a file that was not written to its end and
\* whose header can be read: an image whose data cannot be loaded.
TruncatedImage == "truncated-image"

\* Lines 123-129: Image.open of the image file, or None when it raises.
image_open(e, disk) ==
    IF disk # "ok" \/ e.image = Absent THEN PyNone
    ELSE IF e.whole THEN e.image
    ELSE TruncatedImage

\* A variant of get_cached that gives whatever the image file holds.
get_cached_unchecked(c, key, t, max_age, disk) ==
    IF c[key].whole THEN c[key].image ELSE TruncatedImage

\* get_cached(params): the image, or None.  disk tells whether Image.open
\* can read the image file; it does not read the file to its end.
get_cached(c, key, t, max_age, disk) ==
    IF ~has_cached(c, key, t, max_age) THEN PyNone
    ELSE image_open(c[key], disk)

\* A lookup that is made whether or not the node was asked to use the cache.
cached_lookup_ignoring_use_cache(use_cache, c, key, t, max_age, disk) ==
    get_cached(c, key, t, max_age, disk)

\* mystic_node.py 151-152, remove_bg_node.py 74-75: the lookup a node makes
\* only when use_cache is on (PyNone: no cached image is in hand).
cached_lookup(use_cache, c, key, t, max_age, disk) ==
    IF use_cache THEN get_cached(c, key, t, max_age, disk) ELSE PyNone

\* Lines 154-162: the metadata dict of an entry, the caller's
\* extra_metadata (<<>>: None) laid over it.
metadata_dict(key, image, extra, t) ==
    dict_update(<<<<"timestamp", isoformat(t)>>, <<"params", key.md5>>,
                  <<"image_size", <<"size", image>>>>, <<"cache_key", key>>>>,
                extra)

\* How a save_to_cache can end: without error; image.save raises before it
\* has opened the file, or part-way through writing it; opening the
\* metadata file raises, or json.dump raises part-way.
WriteOutcomes == {"ok", "image_fails", "image_partial", "meta_fails",
                  "meta_partial"}

\* save_to_cache(params, image, extra_metadata), in its steps.  image.save
\* opens the file, which empties it, and then writes it; the metadata file
\* is opened, which empties it, and then written.
save_image_open(c, key, image) ==
    [c EXCEPT ![key].image = image, ![key].whole = FALSE]
save_image_written(c, key) == [c EXCEPT ![key].whole = TRUE]
save_metadata_open(c, key) ==
    [c EXCEPT ![key].has_meta = TRUE, ![key].corrupt = TRUE,
              ![key].metadata = <<>>]
save_metadata_written(c, key, image, extra, t) ==
    [c EXCEPT ![key].corrupt = FALSE,
              ![key].metadata = metadata_dict(key, image, extra, t)]

\* save_to_cache as a whole.  io tells how far the writes get before one
\* raises: "ok" to the end; "image_fails" nowhere; "image_partial" into the
\* image file; "meta_fails" to the end of the image file; "meta_partial" into
\* the metadata file.  An error is printed, not raised.
save_to_cache(c, key, image, extra, t, io) ==
    LET c1 == save_image_open(c, key, image)
        c2 == save_image_written(c1, key)
        c3 == save_metadata_open(c2, key)
    IN  CASE io = "ok"            -> save_metadata_written(c3, key, image,
                                                            extra, t)
          [] io = "meta_partial"  -> c3
          [] io = "meta_fails"    -> c2
          [] io = "image_partial" -> c1
          [] OTHER                -> c

\* Lines 206-207: os.remove of the image file of the cache_key the metadata
\* names, then of the metadata file; io tells which os.remove raises.
clear_entry(c, k, img, io) ==
    IF io = "image_remove_fails" THEN c
    ELSE IF io = "meta_remove_fails"
    THEN [c EXCEPT ![img].image = Absent, ![img].whole = FALSE]
    ELSE [[c EXCEPT ![img].image = Absent, ![img].whole = FALSE]
             EXCEPT ![k].has_meta = FALSE, ![k].corrupt = FALSE,
                    ![k].metadata = <<>>]

\* The loop of clear_cache(older_than_days), lines 193-212, over the
\* metadata files not yet visited: the directory and the count so far.  A
\* file that raises (no JSON, no date, no image file to remove, a remove
\* that fails) is left as it is at that point and is not counted.
RECURSIVE clear_older(_, _, _, _, _)
clear_older(c, todo, cutoff, cleared, io) ==
    IF todo = {} THEN [cache |-> c, cleared |-> cleared]
    ELSE LET k == CHOOSE x \in todo : TRUE
             e == c[k]
             cached_time ==
                 IF e.corrupt THEN Raise("JSONDecodeError", "Expecting value", "")
                 ELSE fromisoformat(dict_get(e.metadata, "timestamp"))
             img == dict_get(e.metadata, "cache_key")
             removes == /\ cached_time.ok
                        /\ cached_time.val < cutoff
                        /\ img \in DOMAIN c
                        /\ c[img].image # Absent
         IN  clear_older(IF removes THEN clear_entry(c, k, img, io) ELSE c,
                         todo \ {k}, cutoff,
                         IF removes /\ io = "ok" THEN cleared + 1 ELSE cleared,
                         io)

\* clear_cache(older_than_days) at time t; all: older_than_days is None, the
\* directory is removed and made again.
clear_cache(c, all, older_than_days, t, io) ==
    IF all
    THEN [cache |-> [k \in DOMAIN c |-> NoEntry], cleared |-> 0]
    ELSE clear_older(c, {k \in DOMAIN c : c[k].has_meta}, t - older_than_days,
                     0, io)

---------------------------------------------------------------------------
(* The remote service and the inputs *)

MaxWait == 3
MaxInterval == 2
MaxLatency == 1
TicksPerSec == MaxLatency + 1

AllAnswer(a) == [i \in 1..NumCandidates |-> a]
AnswerPatterns == [1..NumCandidates -> HttpOutcomes]

\* The values data.generated may hold.
GeneratedShapes ==
    { JList(<<>>), JList(<<JStr(UrlA)>>), JList(<<JStr(UrlB), JStr(UrlA)>>),
      JList(<<JStr("")>>), JList(<<JStr(UrlGone)>>), JList(<<JStr(UrlText)>>),
      JList(<<JDict(UrlA, Absent, FALSE)>>),
      JList(<<JDict(Absent, UrlB, TRUE)>>),
      JList(<<JDict(UrlA, UrlB, FALSE), JStr(UrlB)>>),
      JList(<<JDict(Absent, Absent, TRUE)>>),
      JList(<<JDict(Absent, Absent, FALSE)>>),
      JList(<<JList(<<JStr(UrlB)>>)>>),
      JStr(UrlA), JStr(""),
      JDict(UrlA, Absent, FALSE), JDict(Absent, UrlB, FALSE),
      JDict(Absent, Absent, TRUE), JDict(Absent, Absent, FALSE) }

Pending(st) == StatusResponse(TRUE, st, TRUE, JList(<<>>), Absent)

\* Status responses that keep the task running.
PendingResponses ==
    { Pending(st) : st \in {"created", "queued", "pending", "in_progress",
                            "processing", "QUEUED", "In_Progress"} }

\* Status responses that end the polling.
FinalResponses ==
    { StatusResponse(TRUE, "completed", TRUE, g, Absent) : g \in GeneratedShapes }
    \cup { StatusResponse(TRUE, st, FALSE, JNone, Absent) :
             st \in {"completed", "success", "COMPLETED", "Success"} }
    \cup { StatusResponse(TRUE, st, TRUE, JList(<<JStr(UrlA)>>), Absent) :
             st \in {"success", "COMPLETED", "Success"} }
    \cup { StatusResponse(TRUE, st, FALSE, JNone, e) :
             st \in {"failed", "error", "FAILED", "Error"},
             e \in {Absent, "x", "quota exceeded"} }
    \cup { StatusResponse(TRUE, st, FALSE, JNone, Absent) :
             st \in {"", Absent, PyNone, "cancelled", "Cancelled"} }
    \cup { StatusResponse(FALSE, st, FALSE, JNone, Absent) :
             st \in {"queued", "completed", Absent} }

\* One scripted poll: what each candidate endpoint answers, and the body.
Scripted(answers, body) == [answers |-> answers, body |-> body]

\* The statuses a remote reports before the last one.
Prefixes ==
    { <<>>, <<"queued">>, <<"queued", "in_progress">>, <<"QUEUED", "pending">>,
      <<"created", "processing", "In_Progress">> }

PrefixOf(p) == [i \in 1..Len(p) |-> Scripted(AllAnswer("200"), Pending(p[i]))]

\* The scripts of status polls: a prefix, then a last response that the
\* remote repeats from then on.
PollScripts ==
    { PrefixOf(p) \o <<Scripted(AllAnswer("200"), b)>> :
        p \in Prefixes, b \in PendingResponses \cup FinalResponses }
    \cup { PrefixOf(p) \o <<Scripted(a, Pending("in_progress"))>> :
             p \in {<<>>, <<"queued">>},
             a \in {AllAnswer("404"), AllAnswer("conn"),
                    [AllAnswer("404") EXCEPT ![3] = "200"]} }

\* What the remote answers to the submission.
CreateResponse(hd, a, b, c, d) ==
    [hasData |-> hd, data_task_id |-> a, data_id |-> b, task_id |-> c, id |-> d]

CreateAnswers ==
    { [answer |-> "200",
       response |-> CreateResponse(TRUE, IdDataTaskId, Absent, Absent, Absent)],
      [answer |-> "200",
       response |-> CreateResponse(TRUE, Absent, Absent, Absent, Absent)],
      [answer |-> "200",
       response |-> CreateResponse(FALSE, Absent, Absent, Absent, Absent)],
      [answer |-> "404",
       response |-> CreateResponse(FALSE, Absent, Absent, Absent, Absent)] }

Remotes == [create : CreateAnswers, polls : PollScripts]

\* The answer of the remote to the k-th poll.
PollAnswer(r, k) == r.polls[IF k < Len(r.polls) THEN k ELSE Len(r.polls)]

Endpoint == "/v1/ai/mystic"

---------------------------------------------------------------------------
(* nodes/generation/mystic_node.py: values *)

MysticMaxWait == 300
MysticPollInterval == 3
MaxCalls == 3
MaxDay == 32

\* The arguments of generate.  Numbers are held as JSON text.
Prompts == {"cat", "dog"}
MysticInputs ==
    [api_key : {"key-A", ""}, prompt : Prompts, resolution : {"2k"},
     num_images : {1}, seed : {"-1"}, use_cache : BOOLEAN]
IntText(n) ==
    CASE n = 1 -> "1"
      [] n = 2 -> "2"
      [] OTHER -> "many"

\* params, then cache_key_params = {**params, "api": "mystic"}.
mystic_params(inp) ==
    [api |-> Absent, prompt |-> inp.prompt, num_images |-> IntText(inp.num_images),
     resolution |-> inp.resolution,
     seed |-> IF inp.seed # "-1" THEN inp.seed ELSE Absent]
cache_key_params(inp) == [mystic_params(inp) EXCEPT !.api = "mystic"]

\* _estimate_cost(resolution, num_images), in cents.
estimate_cost(resolution, num_images) ==
    (CASE resolution = "1k" -> 5
       [] resolution = "2k" -> 10
       [] resolution = "4k" -> 20
       [] OTHER             -> 10) * num_images

\* extra_metadata of the entry generate stores, lines 179-183.
mystic_extra_metadata(inp) ==
    <<<<"resolution", inp.resolution>>, <<"aspect_ratio", "1:1">>,
      <<"cost", estimate_cost(inp.resolution, inp.num_images)>>>>

\* pil2tensor(image), create_error_image(512, 512, text)
Tensor(image) == [tensor |-> image]
create_error_image == "error-image"

\* The tuple a node returns: (image, task_info, estimated_cost).
NodeReturn(image, kind, detail, cost) ==
    [image |-> image, task_info |-> [kind |-> kind, detail |-> detail],
     cost |-> cost]

\* What a node returns for the image get_cached gave it: pil2tensor loads
\* the image data, which raises for a file not written to its end, and the
\* node's except branch returns the error image.
CachedReturn(cached, kind, detail) ==
    IF cached = TruncatedImage
    THEN NodeReturn(Tensor(create_error_image), "error",
                    <<"OSError", "image file is truncated">>, 0)
    ELSE NodeReturn(Tensor(cached), kind, detail, 0)
NoReturn == NodeReturn(Tensor("<none yet>"), "<none yet>", <<>>, 0)

\* An except branch that names a timeout as its own kind of outcome.
error_return_naming_timeouts(e) ==
    NodeReturn(Tensor(create_error_image),
               IF e.type = "TimeoutError" THEN "timeout" ELSE "error",
               <<e.msg, e.detail>>, 0)

\* The except branch of a node call (mystic_node.py 196-206,
\* upscaler_nodes.py 400-404 and 614-618, remove_bg_node.py 140-145): the
\* error image, "error|" followed by str(e), and cost 0.0.
error_return(e) ==
    NodeReturn(Tensor(create_error_image), "error", <<e.msg, e.detail>>, 0)

NoCall ==
    [inp |-> [api_key |-> "", prompt |-> "<none>", resolution |-> "2k",
              num_images |-> 1, seed |-> "-1", use_cache |-> FALSE],
     disk |-> "ok", day |-> 0]

NodeKeys == {get_cache_key(cache_key_params(inp)) : inp \in MysticInputs}
EmptyCache == [k \in NodeKeys |-> NoEntry]

InitNode ==
    /\ cache = EmptyCache
    /\ today = 0
    /\ call = NoCall
    /\ calls = 0
    /\ node_ret = NoReturn

---------------------------------------------------------------------------
(* What is not running: no batch, no second call, no confirmation dialog *)

NoBatch == [pc |-> "idle", params_list |-> <<>>, i |-> 0, results |-> <<>>]
NoPeer == [pc |-> "idle", remote |-> "<none>", task_id |-> PyNone,
           start_time |-> 0, elapsed |-> 0, polls |-> 0, status |-> "<none>",
           net |-> <<>>, outcome |-> "<none>"]

\* No cache key is being made and no cache operation is running.
InitCacheIdle ==
    /\ fp = [pc |-> "idle"]
    /\ job = <<>>

InitCallsIdle ==
    /\ reports = <<>>
    /\ batch = NoBatch
    /\ peer = NoPeer

\* The request ids: one uuid4 per request_confirmation call, and one that
\* no call has drawn.
Threads == {"t1", "t2"}
uuid4(t) == IF t = "t1" THEN "uuid-1" ELSE "uuid-2"
UnknownId == "uuid-x"
RequestIds == {uuid4(t) : t \in Threads} \cup {UnknownId}

\* True and False as dict values and results.
PyTrue == "True"
PyFalse == "False"

\* _confirmation_responses = {}
NoResponses == [i \in RequestIds |-> Absent]
\* A request_confirmation call: its position, its locals, what became of
\* the request it sent ("no server", "failed", "ok"), whether the clock has
\* advanced during its current sleep, what it returned and from where
\* ("auto", "response", "timeout").
NoWaiter == [pc |-> "idle", request_id |-> PyNone, sent |-> "<none>",
             start_time |-> 0, ticked |-> FALSE, result |-> PyNone,
             how |-> "<none>"]
\* The confirm_response_handler call being served, the number of calls
\* served, and per request id what handle_confirmation_response has written:
\* when first (-1: never) and which values.
NoHandler == [pc |-> "idle", request_id |-> PyNone, confirmed |-> PyFalse,
              count |-> 0,
              log |-> [i \in RequestIds |-> [first_at |-> -1, values |-> {}]]]
NoUpscale == [pc |-> "idle"]

InitConfirmIdle ==
    /\ HAS_SERVER = TRUE
    /\ confirmation_responses = NoResponses
    /\ confirmation_lock = "free"
    /\ waiter = [t \in Threads |-> NoWaiter]
    /\ handler = NoHandler
    /\ clock = 0
    /\ upscale = NoUpscale

---------------------------------------------------------------------------
(* execute_and_wait *)

InitClient ==
    /\ net = <<>>
    /\ op = [name |-> "<none>", arg |-> "<none>"]
    /\ ret = NoResult

InitOrch ==
    /\ pc = "start"
    /\ max_wait \in 0..MaxWait
    /\ poll_interval \in 1..MaxInterval
    /\ latency \in 0..MaxLatency
    /\ remote \in Remotes
    /\ progress_callback \in BOOLEAN
    /\ task_id = PyNone
    /\ now = 0
    /\ start_time = 0
    /\ elapsed = 0
    /\ polls = 0
    /\ sleeps = 0
    /\ status = NoStatus
    /\ downloads = <<>>
    /\ outcome = NoResult

Init ==
    /\ api_key \in {"key-A", NoKey}
    /\ InitClient
    /\ InitOrch
    /\ InitNode
    /\ InitCallsIdle
    /\ InitCacheIdle
    /\ InitConfirmIdle

\* Lines 46-53: create the task, then start the clock.
Submit ==
    /\ pc = "start"
    /\ LET c == create_task(api_key, Endpoint, remote.create.answer,
                            remote.create.response)
       IN  /\ net' = net \o c[2]
           /\ IF c[1].ok
              THEN /\ task_id' = c[1].val
                   /\ start_time' = now
                   /\ elapsed' = 0
                   /\ pc' = "loop"
                   /\ UNCHANGED outcome
              ELSE /\ outcome' = c[1]
                   /\ pc' = "raised"
                   /\ UNCHANGED <<task_id, start_time, elapsed>>
    /\ UNCHANGED <<api_key, op, ret, max_wait, poll_interval, latency, remote,
                   now, polls, sleeps, status, downloads>>
    /\ UNCHANGED nodeVars
    /\ UNCHANGED <<callVars, confirmVars, cacheVars, reports>>

\* A variant of the pass that takes a status request that failed for a
\* task still running, and sleeps before it polls again.
loop_body_retrying_polls(key, g, st0) ==
    LET p == parse_status(g[1].val)
        d == download_result(key, p.val)
        base == [pc |-> "raised", outcome |-> g[1], status |-> st0,
                 parsed |-> FALSE, downloads |-> <<>>, net |-> g[2]]
    IN  IF ~g[1].ok THEN [base EXCEPT !.pc = "sleep", !.outcome = NoResult]
        ELSE IF ~p.ok THEN [base EXCEPT !.outcome = p]
        ELSE LET b == [base EXCEPT !.status = p.val, !.parsed = TRUE]
             IN  CASE dispatch(p.val) = "download" ->
                        [b EXCEPT !.pc = IF d[1].ok THEN "returned" ELSE "raised",
                                  !.outcome = d[1], !.downloads = d[2],
                                  !.net = g[2] \o d[3]]
                   [] dispatch(p.val) = "fail" ->
                        [b EXCEPT !.outcome = Raise("Exception", "Task failed",
                                                    Str(error_msg(p.val)))]
                   [] dispatch(p.val) = "sleep" ->
                        [b EXCEPT !.pc = "sleep", !.outcome = NoResult]
                   [] OTHER ->
                        [b EXCEPT !.outcome = Raise("Exception", "Unknown status",
                                                    p.val.state)]

\* What one pass of the while loop (lines 57-81) does after the poll
\* answered g = <<result, requests>>: parse, then branch on the state.
\* Returns [pc, outcome, status, parsed, downloads, net].
loop_body(key, g, st0) ==
    LET p == parse_status(g[1].val)
        d == download_result(key, p.val)
        base == [pc |-> "raised", outcome |-> g[1], status |-> st0,
                 parsed |-> FALSE, downloads |-> <<>>, net |-> g[2]]
    IN  IF ~g[1].ok THEN base
        ELSE IF ~p.ok THEN [base EXCEPT !.outcome = p]
        ELSE LET b == [base EXCEPT !.status = p.val, !.parsed = TRUE]
             IN  CASE dispatch(p.val) = "download" ->
                        [b EXCEPT !.pc = IF d[1].ok THEN "returned" ELSE "raised",
                                  !.outcome = d[1], !.downloads = d[2],
                                  !.net = g[2] \o d[3]]
                   [] dispatch(p.val) = "fail" ->
                        [b EXCEPT !.outcome = Raise("Exception", "Task failed",
                                                    Str(error_msg(p.val)))]
                   [] dispatch(p.val) = "sleep" ->
                        [b EXCEPT !.pc = "sleep", !.outcome = NoResult]
                   [] OTHER ->
                        [b EXCEPT !.outcome = Raise("Exception", "Unknown status",
                                                    p.val.state)]

\* int(time.time() - start_time)
elapsed_at(t, t0) == (t - t0) \div TicksPerSec

\* The loop test of line 55.
loop_test(e, mw) == e < mw

\* A variant that reports the time left instead of the time elapsed.
Report_time_left(st, e, mw) == [status |-> st, elapsed |-> mw - e, max_wait |-> mw]

\* Lines 63-64: progress_callback(status, elapsed, max_wait).
Report(st, e, mw) == [status |-> st, elapsed |-> e, max_wait |-> mw]

\* One pass of the while loop, lines 55-81, up to the sleep.
Poll ==
    /\ pc = "loop"
    /\ loop_test(elapsed, max_wait)
    /\ LET a == PollAnswer(remote, polls + 1)
           g == get_task_status(api_key, task_id, a.answers, a.body)
           b == loop_body(api_key, g, status)
       IN  /\ polls' = polls + 1
           /\ now' = now + latency
           /\ elapsed' = IF b.parsed THEN elapsed_at(now + latency, start_time)
                         ELSE elapsed
           /\ status' = b.status
           /\ net' = net \o b.net
           /\ downloads' = downloads \o b.downloads
           /\ outcome' = b.outcome
           /\ pc' = b.pc
           /\ reports' = IF progress_callback /\ b.parsed
                         THEN Append(reports,
                                     Report(b.status,
                                            elapsed_at(now + latency, start_time),
                                            max_wait))
                         ELSE reports
    /\ UNCHANGED <<api_key, op, ret, max_wait, poll_interval, latency, remote,
                   task_id, start_time, sleeps>>
    /\ UNCHANGED nodeVars
    /\ UNCHANGED <<callVars, confirmVars, cacheVars>>

\* Line 78: time.sleep(poll_interval), then back to the loop test.
Sleep ==
    /\ pc = "sleep"
    /\ now' = now + poll_interval * TicksPerSec
    /\ sleeps' = sleeps + 1
    /\ pc' = "loop"
    /\ UNCHANGED <<api_key, net, op, ret, max_wait, poll_interval, latency,
                   remote, task_id, start_time, elapsed, polls, status,
                   downloads, outcome>>
    /\ UNCHANGED nodeVars
    /\ UNCHANGED <<callVars, confirmVars, cacheVars, reports>>

\* Line 83: the loop test fails.
Timeout ==
    /\ pc = "loop"
    /\ ~loop_test(elapsed, max_wait)
    /\ outcome' = Raise("TimeoutError", "Task timeout", "")
    /\ pc' = "raised"
    /\ UNCHANGED <<api_key, net, op, ret, max_wait, poll_interval, latency,
                   remote, task_id, now, start_time, elapsed, polls, sleeps,
                   status, downloads>>
    /\ UNCHANGED nodeVars
    /\ UNCHANGED <<callVars, confirmVars, cacheVars, reports>>

Next == Submit \/ Poll \/ Sleep \/ Timeout

Spec == Init /\ [][Next]_vars

---------------------------------------------------------------------------
(* Two execute_and_wait calls running concurrently on one manager *)

\* The second call keeps its own locals in peer; the client, the clock and
\* the arguments are shared.
TwoScripts ==
    { PrefixOf(p) \o <<Scripted(AllAnswer("200"), b)>> :
        p \in {<<"queued">>},
        b \in {Pending("processing"),
               StatusResponse(TRUE, "COMPLETED", TRUE, JList(<<JStr(UrlA)>>),
                              Absent),
               StatusResponse(TRUE, "failed", FALSE, JNone, "x")} }
    \cup { <<Scripted([AllAnswer("404") EXCEPT ![3] = "200"],
                      Pending("in_progress"))>> }
PeerCreates ==
    { [answer |-> "200",
       response |-> CreateResponse(TRUE, Absent, IdDataId, Absent, Absent)],
      [answer |-> "404",
       response |-> CreateResponse(FALSE, Absent, Absent, Absent, Absent)] }

InitTwo ==
    /\ api_key = "key-A"
    /\ InitClient
    /\ pc = "start"
    /\ max_wait = MaxWait
    /\ poll_interval = 1
    /\ latency \in 0..MaxLatency
    /\ remote \in [create : CreateAnswers, polls : TwoScripts]
    /\ progress_callback = FALSE
    /\ task_id = PyNone
    /\ now = 0
    /\ start_time = 0
    /\ elapsed = 0
    /\ polls = 0
    /\ sleeps = 0
    /\ status = NoStatus
    /\ downloads = <<>>
    /\ outcome = NoResult
    /\ InitNode
    /\ reports = <<>>
    /\ batch = NoBatch
    /\ \E r \in [create : PeerCreates, polls : TwoScripts] :
          peer = [NoPeer EXCEPT !.pc = "start", !.remote = r,
                                !.status = NoStatus, !.outcome = NoResult]
    /\ InitConfirmIdle
    /\ InitCacheIdle

\* One step of the second call: the submission, one pass of the loop, the
\* sleep, or the timeout, as Submit, Poll, Sleep and Timeout.
PeerStep ==
    /\ peer.pc \in {"start", "loop", "sleep"}
    /\ LET c == create_task(api_key, Endpoint, peer.remote.create.answer,
                            peer.remote.create.response)
           a == PollAnswer(peer.remote, peer.polls + 1)
           g == get_task_status(api_key, peer.task_id, a.answers, a.body)
           b == loop_body(api_key, g, peer.status)
       IN  CASE peer.pc = "start" ->
                  /\ peer' = IF c[1].ok
                             THEN [peer EXCEPT !.pc = "loop", !.task_id = c[1].val,
                                               !.start_time = now, !.elapsed = 0,
                                               !.net = peer.net \o c[2]]
                             ELSE [peer EXCEPT !.pc = "raised", !.outcome = c[1],
                                               !.net = peer.net \o c[2]]
                  /\ now' = now
             [] peer.pc = "loop" /\ loop_test(peer.elapsed, max_wait) ->
                  /\ peer' = [peer EXCEPT
                                !.pc = b.pc, !.polls = peer.polls + 1,
                                !.elapsed = IF b.parsed
                                            THEN elapsed_at(now + latency,
                                                            peer.start_time)
                                            ELSE peer.elapsed,
                                !.status = b.status,
                                !.net = peer.net \o b.net,
                                !.outcome = b.outcome]
                  /\ now' = now + latency
             [] peer.pc = "loop" /\ ~loop_test(peer.elapsed, max_wait) ->
                  /\ peer' = [peer EXCEPT
                                !.pc = "raised",
                                !.outcome = Raise("TimeoutError", "Task timeout", "")]
                  /\ now' = now
             [] peer.pc = "sleep" ->
                  /\ peer' = [peer EXCEPT !.pc = "loop"]
                  /\ now' = now + poll_interval * TicksPerSec
    /\ UNCHANGED <<api_key, net, op, ret, pc, max_wait, poll_interval, latency,
                   remote, task_id, start_time, elapsed, polls, sleeps, status,
                   downloads, outcome>>
    /\ UNCHANGED nodeVars
    /\ UNCHANGED <<progress_callback, batch, confirmVars, cacheVars, reports>>

NextTwo == Submit \/ Poll \/ Sleep \/ Timeout \/ PeerStep

SpecTwo == InitTwo /\ [][NextTwo]_vars

---------------------------------------------------------------------------
(* The client's operations, called one at a time by any caller *)

IdleRemote ==
    [create |-> [answer |-> "200",
                 response |-> CreateResponse(TRUE, IdDataTaskId, Absent, Absent,
                                             Absent)],
     polls |-> <<Scripted(AllAnswer("200"), Pending("queued"))>>]

\* No execute_and_wait call is running.
IdleOrch ==
    /\ pc = "idle"
    /\ max_wait = 0
    /\ poll_interval = 1
    /\ latency = 0
    /\ remote = IdleRemote
    /\ progress_callback = FALSE
    /\ task_id = PyNone
    /\ now = 0
    /\ start_time = 0
    /\ elapsed = 0
    /\ polls = 0
    /\ sleeps = 0
    /\ status = NoStatus
    /\ downloads = <<>>
    /\ outcome = NoResult

InitClientOps ==
    /\ api_key \in ApiKeys
    /\ InitClient
    /\ IdleOrch
    /\ InitNode
    /\ InitCallsIdle
    /\ InitCacheIdle
    /\ InitConfirmIdle

TaskIds == {IdDataTaskId, IdId, NoneStr}
ClientBodies == {Pending("queued"),
                 StatusResponse(TRUE, "completed", TRUE, JList(<<JStr(UrlA)>>),
                                Absent)}
DownloadArgs == {JStr(u) : u \in Urls} \cup {JNone, JStr("h")}

\* What a call leaves behind: the call, its result, the requests it sent.
Called(name, arg, r) ==
    /\ op' = [name |-> name, arg |-> arg]
    /\ ret' = r[1]
    /\ net' = r[2]
    /\ UNCHANGED <<api_key, pc, max_wait, poll_interval, latency, remote,
                   task_id, now, start_time, elapsed, polls, sleeps, status,
                   downloads, outcome>>
    /\ UNCHANGED nodeVars
    /\ UNCHANGED <<callVars, confirmVars, cacheVars, reports>>

\* set_api_key(api_key)
SetApiKey ==
    /\ \E k \in ApiKeys : api_key' = k
    /\ op' = [name |-> "set_api_key", arg |-> api_key']
    /\ ret' = Return(PyNone)
    /\ net' = <<>>
    /\ UNCHANGED orchVars
    /\ UNCHANGED nodeVars
    /\ UNCHANGED <<callVars, confirmVars, cacheVars, reports>>

CallPost ==
    \E a \in HttpOutcomes, r \in {CreateResponse(TRUE, Absent, IdDataId, Absent,
                                                 Absent)} :
        Called("post", [answer |-> a, body |-> r], post(api_key, Endpoint, a, r))

CallGet ==
    \E a \in HttpOutcomes, b \in ClientBodies :
        Called("get", [answer |-> a, body |-> b],
               get(api_key, StatusEndpoint(1, IdId), a, b))

CallCreateTask ==
    \E a \in HttpOutcomes, r \in CreateResponses :
        Called("create_task", [answer |-> a, response |-> r],
               create_task(api_key, Endpoint, a, r))

CallGetTaskStatus ==
    \E tid \in TaskIds, a \in AnswerPatterns, b \in ClientBodies :
        Called("get_task_status", [tid |-> tid, answers |-> a, body |-> b],
               get_task_status(api_key, tid, a, b))

CallDownloadImage ==
    \E u \in DownloadArgs :
        Called("download_image", u, download_image(api_key, u))

NextClient ==
    \/ SetApiKey
    \/ CallPost
    \/ CallGet
    \/ CallCreateTask
    \/ CallGetTaskStatus
    \/ CallDownloadImage

SpecClient == InitClientOps /\ [][NextClient]_vars

---------------------------------------------------------------------------
(* api/client.py: the session's retry adapter (_create_session) *)

RetryTotal == 3
status_forcelist == {"429", "500", "502", "503", "504"}
allowed_methods == {"GET", "POST"}

\* Not set by _create_session, so Retry keeps its defaults: a Retry-After
\* header is respected on the statuses 413, 429 and 503.
respect_retry_after_header == TRUE
RetryAfterStatusCodes == {"413", "429", "503"}

\* What the transport gives for one attempt: a response with its status and
\* whether it carries a Retry-After header, or no response at all ("conn").
Attempt(st, retry_after) == [status |-> st, retry_after |-> retry_after]
RawAnswers ==
    { Attempt(st, FALSE) : st \in {"200", "404", "429", "conn"} }
    \cup { Attempt("413", TRUE) }

\* Retry.is_retry(method, status_code, has_retry_after), left being the
\* retries that remain.
is_retry(method, a, left) ==
    /\ method \in allowed_methods
    /\ \/ a.status \in status_forcelist
       \/ /\ left > 0
          /\ respect_retry_after_header
          /\ a.retry_after
          /\ a.status \in RetryAfterStatusCodes

\* The adapter's send from attempt i on, with left retries remaining:
\* [attempts made, final], final being the status of the response handed
\* back, "exhausted" (RetryError) or "conn" (ConnectionError).
RECURSIVE adapter_send(_, _, _, _)
adapter_send(method, raw, i, left) ==
    LET a == raw[i]
    IN  IF a.status = "conn"
        THEN IF left = 0 THEN [attempts |-> i, final |-> "conn"]
             ELSE adapter_send(method, raw, i + 1, left - 1)
        ELSE IF is_retry(method, a, left)
        THEN IF left = 0 THEN [attempts |-> i, final |-> "exhausted"]
             ELSE adapter_send(method, raw, i + 1, left - 1)
        ELSE [attempts |-> i, final |-> a.status]

\* How post and get see what the session gave: a 2xx, an HTTPError of
\* raise_for_status, or another RequestException.
session_answer(final) ==
    CASE final = "200"                  -> "200"
      [] final \in {"conn", "exhausted"} -> "conn"
      [] OTHER                          -> final

\* The sequences of n attempts.
RECURSIVE AttemptSeqs(_)
AttemptSeqs(n) ==
    IF n = 0 THEN {<<>>}
    ELSE {Append(q, a) : q \in AttemptSeqs(n - 1), a \in RawAnswers}
RawScripts == AttemptSeqs(RetryTotal + 1)

\* The same request sent n times.
RECURSIVE Attempts(_, _)
Attempts(rq, n) == IF n = 0 THEN <<>> ELSE Append(Attempts(rq, n - 1), rq)

InitSession ==
    /\ api_key = "key-A"
    /\ InitClient
    /\ IdleOrch
    /\ InitNode
    /\ InitCallsIdle
    /\ InitCacheIdle
    /\ InitConfirmIdle

\* session.post / session.get as post and get call it, the transport
\* answering the attempts with raw.
SessionRequest ==
    \E method \in allowed_methods, raw \in RawScripts :
        LET sent == adapter_send(method, raw, 1, RetryTotal)
            who == IF method = "POST" THEN Endpoint ELSE StatusEndpoint(1, IdId)
            r == http_result(session_answer(sent.final), Pending("queued"), who)
        IN  Called(IF method = "POST" THEN "session.post" ELSE "session.get",
                   [method |-> method, raw |-> raw],
                   <<r, Attempts(Request(method, who, api_key), sent.attempts)>>)

NextSession == SessionRequest

SpecSession == InitSession /\ [][NextSession]_vars

---------------------------------------------------------------------------
(* execute_batch *)

DefaultPollInterval == 2
MaxBatch == 2

\* What the remote does with one parameter set of the batch.
BatchScripts ==
    { <<Scripted(AllAnswer("200"), Pending("queued")),
        Scripted(AllAnswer("200"),
                 StatusResponse(TRUE, "COMPLETED", TRUE, JList(<<JStr(UrlA)>>),
                                Absent))>>,
      <<Scripted(AllAnswer("200"), Pending("processing"))>>,
      <<Scripted(AllAnswer("200"), Pending("queued")),
        Scripted(AllAnswer("200"),
                 StatusResponse(TRUE, "failed", FALSE, JNone, "x"))>>,
      <<Scripted(AllAnswer("404"), Pending("queued"))>> }
    \cup { <<Scripted(AllAnswer("200"),
                      StatusResponse(TRUE, "completed", TRUE, JList(<<JStr(u)>>),
                                     Absent))>> : u \in {UrlB, UrlGone, UrlText} }
BatchRemotes ==
    [create : {IdleRemote.create}, polls : BatchScripts]
    \cup { [create |-> [answer |-> "404",
                        response |-> CreateResponse(FALSE, Absent, Absent, Absent,
                                                    Absent)],
           polls |-> IdleRemote.polls] }
ParamsLists == UNION { [1..n -> BatchRemotes] : n \in 0..MaxBatch }

\* execute_batch(endpoint, params_list, max_wait) is called.
InitBatch ==
    /\ api_key \in {"key-A", NoKey}
    /\ InitClient
    /\ IdleOrch
    /\ InitNode
    /\ reports = <<>>
    /\ peer = NoPeer
    /\ \E pl \in ParamsLists :
          batch = [NoBatch EXCEPT !.pc = "start", !.params_list = pl]
    /\ InitConfirmIdle
    /\ InitCacheIdle

\* Lines 174-181: the for loop takes the next parameter set and calls
\* execute_and_wait(endpoint, params, max_wait=max_wait), or ends (line 183).
BatchNext ==
    /\ batch.pc = "start"
    /\ pc = "idle"
    /\ \E mw \in {0, MaxWait}, l \in 0..MaxLatency :
         IF Len(batch.params_list) = 0
         THEN /\ batch' = [batch EXCEPT !.pc = "done"]
              /\ UNCHANGED <<pc, remote, max_wait, poll_interval, latency>>
         ELSE /\ batch' = [batch EXCEPT !.pc = "running", !.i = 1]
              /\ pc' = "start"
              /\ remote' = batch.params_list[1]
              /\ max_wait' = mw
              /\ poll_interval' = DefaultPollInterval
              /\ latency' = l
    /\ UNCHANGED <<api_key, net, op, ret, task_id, now, start_time, elapsed,
                   polls, sleeps, status, downloads, outcome>>
    /\ UNCHANGED nodeVars
    /\ UNCHANGED <<progress_callback, peer, confirmVars, cacheVars, reports>>

\* A variant that keeps the error of a failed task in its slot.
batch_slot_keeping_error(p, out) == IF p = "returned" THEN out.val ELSE out.msg

\* Lines 177-181: what is appended for a call that returned or raised.
batch_slot(p, out) == IF p = "returned" THEN out.val ELSE PyNone

\* Lines 177-181: execute_and_wait returned or raised; append the image or
\* None, and go on with the next parameter set.
BatchCollect ==
    /\ batch.pc = "running"
    /\ pc \in {"returned", "raised"}
    /\ LET result == batch_slot(pc, outcome)
           last == batch.i = Len(batch.params_list)
       IN  /\ batch' = [batch EXCEPT
                          !.results = Append(batch.results, result),
                          !.i = IF last THEN batch.i ELSE batch.i + 1,
                          !.pc = IF last THEN "done" ELSE "running"]
           /\ pc' = IF last THEN "idle" ELSE "start"
           /\ remote' = IF last THEN remote ELSE batch.params_list[batch.i + 1]
    /\ task_id' = PyNone
    /\ polls' = 0
    /\ sleeps' = 0
    /\ status' = NoStatus
    /\ downloads' = <<>>
    /\ outcome' = NoResult
    /\ UNCHANGED <<api_key, net, op, ret, max_wait, poll_interval, latency, now,
                   start_time, elapsed>>
    /\ UNCHANGED nodeVars
    /\ UNCHANGED <<progress_callback, peer, confirmVars, cacheVars, reports>>

NextBatch == BatchNext \/ Submit \/ Poll \/ Sleep \/ Timeout \/ BatchCollect

SpecBatch == InitBatch /\ [][NextBatch]_vars

---------------------------------------------------------------------------
(* nodes/editing/upscaler_nodes.py: the confirmation dialog *)

ConfirmDeadline == 60
MaxTicks == 2
MaxResponses == 2

\* The clock advances in steps of half the deadline.
ClockStep == ConfirmDeadline \div 2

\* A variant that waits for an answer to a request that could not be sent.
confirm_start_waiting_unsent(has_server, send_ok) ==
    IF ~has_server THEN "auto" ELSE "wait"

\* Lines 54-70: what request_confirmation does before it waits.
confirm_start(has_server, send_ok) ==
    IF ~has_server THEN "auto"
    ELSE IF ~send_ok THEN "auto"
    ELSE "wait"

\* Line 74: the loop test.
confirm_loop_test(t0, t) == t - t0 < ConfirmDeadline

\* A variant that takes whatever entry the table holds.
confirm_check_any_entry(table, id) ==
    IF \E i \in DOMAIN table : table[i] # Absent
    THEN LET i == CHOOSE j \in DOMAIN table : table[j] # Absent
         IN  [found |-> TRUE, confirmed |-> table[i],
              table |-> [table EXCEPT ![i] = Absent]]
    ELSE [found |-> FALSE, confirmed |-> PyNone, table |-> table]

\* Lines 76-78: the waiter looks its request id up and pops the entry.
confirm_check(table, id) ==
    IF table[id] # Absent
    THEN [found |-> TRUE, confirmed |-> table[id],
          table |-> [table EXCEPT ![id] = Absent]]
    ELSE [found |-> FALSE, confirmed |-> PyNone, table |-> table]

\* A variant that sleeps inside the with block.
lock_kept_while_sleeping(t, found) == IF found THEN "free" ELSE t

\* Lines 75-79: the lock once the with block is left, by return or by
\* reaching its end; the sleep of line 79 comes after it.
lock_after_check(t, found) == "free"

InitConfirm ==
    /\ api_key = ""
    /\ InitClient
    /\ IdleOrch
    /\ InitNode
    /\ InitCallsIdle
    /\ InitCacheIdle
    /\ HAS_SERVER \in BOOLEAN
    /\ confirmation_responses = NoResponses
    /\ confirmation_lock = "free"
    /\ waiter = [t \in Threads |-> NoWaiter]
    /\ handler = NoHandler
    /\ clock = 0
    /\ upscale = NoUpscale

ConfirmIdle ==
    /\ UNCHANGED clientVars
    /\ UNCHANGED orchVars
    /\ UNCHANGED nodeVars
    /\ UNCHANGED <<callVars, reports, cacheVars, HAS_SERVER, upscale>>

\* request_confirmation is called, lines 54-73: auto-confirm, or send the
\* request and start the clock.
RequestConfirmation(t) ==
    /\ waiter[t].pc = "idle"
    /\ \E send_ok \in BOOLEAN :
         waiter' = [waiter EXCEPT ![t] =
            LET sent == IF ~HAS_SERVER THEN "no server"
                        ELSE IF send_ok THEN "ok" ELSE "failed"
            IN  IF confirm_start(HAS_SERVER, send_ok) = "auto"
                THEN [@ EXCEPT !.pc = "returned", !.result = PyTrue,
                               !.how = "auto", !.sent = sent,
                               !.request_id = IF HAS_SERVER THEN uuid4(t)
                                              ELSE PyNone]
                ELSE [@ EXCEPT !.pc = "test", !.request_id = uuid4(t),
                               !.sent = sent, !.start_time = clock]]
    /\ UNCHANGED <<confirmation_responses, confirmation_lock, handler, clock>>
    /\ ConfirmIdle

\* Line 74, and lines 81-82 when the test fails.
WaitTest(t) ==
    /\ waiter[t].pc = "test"
    /\ waiter' = [waiter EXCEPT ![t] =
          IF confirm_loop_test(waiter[t].start_time, clock)
          THEN [@ EXCEPT !.pc = "acquire"]
          ELSE [@ EXCEPT !.pc = "returned", !.result = PyFalse,
                         !.how = "timeout"]]
    /\ UNCHANGED <<confirmation_responses, confirmation_lock, handler, clock>>
    /\ ConfirmIdle

\* Line 75: with _confirmation_lock, entered once the lock is free.
WaitAcquire(t) ==
    /\ waiter[t].pc = "acquire"
    /\ confirmation_lock = "free"
    /\ confirmation_lock' = t
    /\ waiter' = [waiter EXCEPT ![t].pc = "check"]
    /\ UNCHANGED <<confirmation_responses, handler, clock>>
    /\ ConfirmIdle

\* Lines 76-78: the check under the lock, which is released on the way out.
WaitCheck(t) ==
    /\ waiter[t].pc = "check"
    /\ LET c == confirm_check(confirmation_responses, waiter[t].request_id)
       IN  /\ confirmation_responses' = c.table
           /\ confirmation_lock' = lock_after_check(t, c.found)
           /\ waiter' = [waiter EXCEPT ![t] =
                 IF c.found
                 THEN [@ EXCEPT !.pc = "returned", !.result = c.confirmed,
                                !.how = "response"]
                 ELSE [@ EXCEPT !.pc = "sleep"]]
    /\ UNCHANGED <<handler, clock>>
    /\ ConfirmIdle

\* Line 79: time.sleep(0.1); the time it takes passes by Tick.
WaitSleep(t) ==
    /\ waiter[t].pc = "sleep"
    /\ waiter' = [waiter EXCEPT ![t].pc = "test", ![t].ticked = FALSE]
    /\ UNCHANGED <<confirmation_responses, confirmation_lock, handler, clock>>
    /\ ConfirmIdle

\* The request ids the front end has been sent, and what else it may post:
\* an id nobody waits for, or no id at all.
SentIds == {waiter[t].request_id : t \in {u \in Threads : waiter[u].sent = "ok"}}
PostedIds == SentIds \cup {UnknownId, ""}

\* confirm_response_handler, lines 98-103: a POST arrives.
HandlerReceive ==
    /\ HAS_SERVER
    /\ handler.pc = "idle"
    /\ handler.count < MaxResponses
    /\ \E id \in PostedIds, c \in {PyTrue, PyFalse} :
         handler' = [handler EXCEPT !.pc = IF id # "" THEN "acquire" ELSE "idle",
                                    !.request_id = id, !.confirmed = c,
                                    !.count = @ + 1]
    /\ UNCHANGED <<confirmation_responses, confirmation_lock, waiter, clock>>
    /\ ConfirmIdle

\* handle_confirmation_response, line 87: with _confirmation_lock.
HandlerAcquire ==
    /\ handler.pc = "acquire"
    /\ confirmation_lock = "free"
    /\ confirmation_lock' = "handler"
    /\ handler' = [handler EXCEPT !.pc = "insert"]
    /\ UNCHANGED <<confirmation_responses, waiter, clock>>
    /\ ConfirmIdle

\* Line 88: the entry is written, and the lock released.
HandlerInsert ==
    /\ handler.pc = "insert"
    /\ confirmation_responses' =
         [confirmation_responses EXCEPT ![handler.request_id] = handler.confirmed]
    /\ confirmation_lock' = "free"
    /\ handler' = [handler EXCEPT
                     !.pc = "idle",
                     !.log[handler.request_id] =
                        [first_at |-> IF @.first_at < 0 THEN clock ELSE @.first_at,
                         values |-> @.values \cup {handler.confirmed}]]
    /\ UNCHANGED <<waiter, clock>>
    /\ ConfirmIdle

\* Time passes, while every request_confirmation call running is in its
\* sleep of line 79 and no response is being handled: the other steps take
\* no time, and no sleep lasts longer than one step of the clock.
Tick ==
    /\ clock + ClockStep <= MaxTicks * ClockStep
    /\ \A t \in Threads :
         IF waiter[t].pc = "sleep" THEN ~waiter[t].ticked
         ELSE waiter[t].pc \in {"idle", "returned"}
    /\ handler.pc = "idle"
    /\ clock' = clock + ClockStep
    /\ waiter' = [t \in Threads |->
                    IF waiter[t].pc = "sleep"
                    THEN [waiter[t] EXCEPT !.ticked = TRUE] ELSE waiter[t]]
    /\ UNCHANGED <<confirmation_responses, confirmation_lock, handler>>
    /\ ConfirmIdle

NextConfirm ==
    \/ \E t \in Threads : RequestConfirmation(t)
    \/ \E t \in Threads : WaitTest(t)
    \/ \E t \in Threads : WaitAcquire(t)
    \/ \E t \in Threads : WaitCheck(t)
    \/ \E t \in Threads : WaitSleep(t)
    \/ HandlerReceive
    \/ HandlerAcquire
    \/ HandlerInsert
    \/ Tick

SpecConfirm == InitConfirm /\ [][NextConfirm]_vars

---------------------------------------------------------------------------
(* nodes/generation/mystic_node.py: FreepikMystic.generate *)

GoodCreate ==
    [answer |-> "200",
     response |-> CreateResponse(TRUE, IdDataTaskId, Absent, Absent, Absent)]
Completed(xs) ==
    Scripted(AllAnswer("200"),
             StatusResponse(TRUE, "completed", TRUE, JList(xs), Absent))

\* What the remote does during one node call: quick polls ending in a result
\* or a failure, or polls that each take 100 s and never report an end.
NodeScenarios ==
    { [latency |-> 0,
       remote |-> [create |-> GoodCreate, polls |-> <<Completed(<<JStr(UrlA)>>)>>]],
      [latency |-> 0,
       remote |-> [create |-> GoodCreate,
                   polls |-> PrefixOf(<<"queued">>)
                             \o <<Completed(<<JStr(UrlB), JStr(UrlA)>>)>>]],
      [latency |-> 0,
       remote |-> [create |-> GoodCreate,
                   polls |-> <<Scripted(AllAnswer("200"),
                                        StatusResponse(TRUE, "failed", FALSE,
                                                       JNone, "x"))>>]],
      [latency |-> 100 * TicksPerSec,
       remote |-> [create |-> GoodCreate,
                   polls |-> <<Scripted(AllAnswer("200"),
                                        Pending("in_progress"))>>]] }

InitNodeCalls ==
    /\ api_key = ""
    /\ InitClient
    /\ IdleOrch
    /\ InitNode
    /\ InitCallsIdle
    /\ InitCacheIdle
    /\ InitConfirmIdle

\* generate, lines 119-165: build the parameters, look the cache up, and
\* either return the cached image or enter execute_and_wait.
MysticGenerate ==
    /\ pc = "idle"
    /\ calls < MaxCalls
    /\ \E inp \in MysticInputs, disk \in {"ok", "unreadable"},
          sc \in NodeScenarios :
         LET key == get_cache_key(cache_key_params(inp))
             looked == inp.use_cache
                       /\ has_cached(cache, key, today, DefaultMaxAgeDays)
             cached == cached_lookup(inp.use_cache, cache, key, today,
                                     DefaultMaxAgeDays, disk)
         IN  /\ call' = [inp |-> inp, disk |-> IF looked THEN disk ELSE "ok",
                          day |-> today]
             /\ calls' = calls + 1
             /\ api_key' = inp.api_key
             /\ IF cached # PyNone
                THEN /\ node_ret' = CachedReturn(cached, "cached_result", <<>>)
                     /\ pc' = "idle"
                     /\ remote' = IdleRemote
                     /\ latency' = 0
                     /\ max_wait' = 0
                     /\ poll_interval' = 1
                ELSE /\ node_ret' = NoReturn
                     /\ pc' = "start"
                     /\ remote' = sc.remote
                     /\ latency' = sc.latency
                     /\ max_wait' = MysticMaxWait
                     /\ poll_interval' = MysticPollInterval
    /\ net' = <<>>
    /\ task_id' = PyNone
    /\ now' = 0
    /\ start_time' = 0
    /\ elapsed' = 0
    /\ polls' = 0
    /\ sleeps' = 0
    /\ status' = NoStatus
    /\ downloads' = <<>>
    /\ outcome' = NoResult
    /\ UNCHANGED <<op, ret, cache, today>>
    /\ UNCHANGED <<callVars, confirmVars, cacheVars, reports>>

\* generate, lines 175-206: execute_and_wait has returned or raised; store
\* the result and return it, or return the error image.
MysticFinish ==
    /\ pc \in {"returned", "raised"}
    /\ calls > 0
    /\ \E io \in WriteOutcomes :
         LET inp == call.inp
             key == get_cache_key(cache_key_params(inp))
         IN  IF pc = "returned"
             THEN /\ cache' = IF inp.use_cache
                              THEN save_to_cache(cache, key, outcome.val,
                                                 mystic_extra_metadata(inp),
                                                 today, io)
                              ELSE cache
                  /\ node_ret' = NodeReturn(Tensor(outcome.val), "success",
                                            <<inp.resolution>>,
                                            estimate_cost(inp.resolution,
                                                          inp.num_images))
             ELSE /\ cache' = cache
                  /\ node_ret' = error_return(outcome)
    /\ pc' = "idle"
    /\ UNCHANGED <<api_key, net, op, ret, max_wait, poll_interval, latency,
                   remote, task_id, now, start_time, elapsed, polls, sleeps,
                   status, downloads, outcome, today, call, calls>>
    /\ UNCHANGED <<callVars, confirmVars, cacheVars, reports>>

\* Days pass between two node calls.
DaySteps == {DefaultMaxAgeDays \div 2, DefaultMaxAgeDays \div 2 + 1}
DaysPass ==
    /\ pc = "idle"
    /\ \E d \in DaySteps : today + d <= MaxDay /\ today' = today + d
    /\ UNCHANGED <<api_key, net, op, ret, cache, call, calls, node_ret>>
    /\ UNCHANGED orchVars
    /\ UNCHANGED <<callVars, confirmVars, cacheVars, reports>>

NextNode ==
    \/ MysticGenerate
    \/ Submit
    \/ Poll
    \/ Sleep
    \/ Timeout
    \/ MysticFinish
    \/ DaysPass

SpecNode == InitNodeCalls /\ [][NextNode]_vars

---------------------------------------------------------------------------
(* nodes/editing/upscaler_nodes.py: FreepikUpscalerCreative.upscale and    *)
(* FreepikUpscalerPrecision.upscale                                        *)

UpscaleMaxWait == 600
UpscalePollInterval == 5
MaxUpscales == 2

\* The arguments of upscale that matter here; the image and the other
\* settings are the same in every call.
UpscaleInputs ==
    [kind : {"creative", "precision"}, seed : {"7"},
     output_area : {2560 * 1920 + 1},
     confirm_before_run : BOOLEAN]

\* cache_key_params of the two nodes as json.dumps(..., sort_keys=True)
\* writes them, and the cache key made of that text.
upscale_cache_key(inp) ==
    md5(IF inp.kind = "creative"
        THEN <<<<"creativity", "0">>, <<"engine", "automatic">>,
               <<"fractality", "0">>, <<"hdr", "0">>, <<"image_hash", "h1">>,
               <<"optimized_for", "standard">>, <<"prompt", "">>,
               <<"resemblance", "0">>, <<"scale_factor", "2x">>,
               <<"seed", inp.seed>>>>
        ELSE <<<<"denoise", "0">>, <<"image_hash", "h1">>,
               <<"mode", "precision">>, <<"scale_factor", "2x">>,
               <<"seed", inp.seed>>, <<"sharpen", "0">>>>)
UpscaleKeys == {upscale_cache_key(inp) : inp \in UpscaleInputs}

\* remove_bg_node.py 70-71: the cache key of remove_bg for the one image.
remove_bg_cache_key ==
    md5(<<<<"image_hash", "h1-all-bytes">>, <<"operation", "remove_bg">>>>)

\* What the remove-background endpoint answers: the keys high_resolution and
\* url of the response and of its 'data' (Absent: no such key).
RemoveBgResponse(hr, url, data_hr, data_url) ==
    [high_resolution |-> hr, url |-> url, data_high_resolution |-> data_hr,
     data_url |-> data_url]
RemoveBgResponses ==
    {RemoveBgResponse(UrlA, Absent, Absent, Absent),
     RemoveBgResponse(Absent, UrlB, Absent, Absent),
     RemoveBgResponse(Absent, Absent, Absent, UrlA),
     RemoveBgResponse(Absent, Absent, Absent, Absent),
     RemoveBgResponse("", UrlA, Absent, Absent),
     RemoveBgResponse(UrlGone, Absent, Absent, Absent),
     RemoveBgResponse(Absent, Absent, UrlText, Absent)}

\* remove_bg_node.py 101-110: the first of the four keys that is there.
remove_bg_output_url(response) ==
    IF response.high_resolution # Absent THEN response.high_resolution
    ELSE IF response.url # Absent THEN response.url
    ELSE IF response.data_high_resolution # Absent
    THEN response.data_high_resolution
    ELSE IF response.data_url # Absent THEN response.data_url
    ELSE PyNone

\* remove_bg_node.py 94-118: the request, the URL taken from its answer,
\* the download and Image.open: <<result, download_image arguments,
\* requests>>.
remove_bg_remote(key, answer, response) ==
    LET r == post(key, "/v1/ai/beta/remove-background", answer, response)
        output_url == remove_bg_output_url(response)
        d == download_image(key, JStr(output_url))
    IN  IF ~r[1].ok THEN <<r[1], <<>>, r[2]>>
        ELSE IF output_url \in {PyNone, ""}
        THEN <<Raise("Exception", "No output URL in response", ""), <<>>, r[2]>>
        ELSE IF ~d[1].ok THEN <<d[1], <<JStr(output_url)>>, r[2] \o d[2]>>
        ELSE <<ImageOpen(d[1].val), <<JStr(output_url)>>, r[2] \o d[2]>>

\* _estimate_cost(input_size, output_size), in cents.
upscale_estimate_cost(output_area) ==
    IF output_area <= 1280 * 960 THEN 10
    ELSE IF output_area <= 2560 * 1920 THEN 20
    ELSE IF output_area <= 5120 * 3840 THEN 40
    ELSE IF output_area <= 10000 * 10000 THEN 120
    ELSE 160

\* The extra metadata of the entry upscale stores, lines 382-389, 596-601.
upscale_extra_metadata(inp) ==
    <<<<"mode", inp.kind>>, <<"factor", "2x">>>>
    \o (IF inp.kind = "creative"
        THEN <<<<"optimized_for", "standard">>, <<"engine", "automatic">>>>
        ELSE <<>>)
    \o <<<<"seed", inp.seed>>,
         <<"cost", upscale_estimate_cost(inp.output_area)>>>>

\* send_status_event(node_id, event, ...), lines 36-49, as what it adds to
\* the events the front end has been sent: nothing without a PromptServer.
send_status_event(events, event) ==
    IF HAS_SERVER THEN Append(events, event) ELSE events

\* progress_callback of lines 364-367 and 579-582, called n times.
polling_events(events, n) ==
    IF HAS_SERVER THEN events \o [i \in 1..n |-> "polling"] ELSE events

\* A gate that asks and then runs whatever the answer was.
confirm_gate_ignoring_answer(confirm_before_run, confirmed) == "run"

\* Lines 340-356 and 555-571: what upscale does once request_confirmation
\* has answered (confirmed is not looked at when confirm_before_run is off).
confirm_gate(confirm_before_run, confirmed) ==
    IF confirm_before_run /\ confirmed # PyTrue THEN "cancel" ELSE "run"

\* Remote work that ends without an image at the first poll: a state that
\* is not known, a completed task without a result, a status request that
\* is refused, a result that cannot be downloaded, and one that is no image.
FailingPolls ==
    {Scripted(AllAnswer("200"), Pending("archived")),
     Completed(<<>>),
     Scripted(AllAnswer("404"), Pending("queued")),
     Completed(<<JStr(UrlGone)>>),
     Completed(<<JStr(UrlText)>>)}

\* What the remote does during one upscale call: a result or a failure at
\* the first poll, or polls that take 100 s each and never report an end.
UpscaleScenarios ==
    {sc \in NodeScenarios : Len(sc.remote.polls) = 1}
    \cup {[latency |-> 0, remote |-> [create |-> GoodCreate, polls |-> <<p>>]] :
            p \in FailingPolls}

InitUpscale ==
    /\ api_key = "key-A"
    /\ InitClient
    /\ IdleOrch
    /\ cache = [k \in UpscaleKeys \cup {remove_bg_cache_key} |-> NoEntry]
    /\ today = 0
    /\ call = NoCall
    /\ calls = 0
    /\ node_ret = NoReturn
    /\ InitCallsIdle
    /\ InitCacheIdle
    /\ HAS_SERVER \in BOOLEAN
    /\ confirmation_responses = NoResponses
    /\ confirmation_lock = "free"
    /\ waiter = [t \in Threads |-> NoWaiter]
    /\ handler = NoHandler
    /\ clock = 0
    /\ upscale = NoUpscale

\* upscale, lines 258-343 and 490-558: compute the cost and the cache key,
\* look the cache up; return the cached image, or go on to ask for
\* confirmation, or go straight to execute_and_wait.  A call that asks does
\* so from a thread that has not asked before: its request id is fresh.
UpscaleStart ==
    /\ upscale.pc \in {"idle", "done"}
    /\ pc = "idle"
    /\ calls < MaxUpscales
    /\ \E inp \in UpscaleInputs, disk \in {"ok", "unreadable"},
          sc \in UpscaleScenarios :
         LET key == upscale_cache_key(inp)
             t == IF waiter["t1"].pc = "idle" THEN "t1" ELSE "t2"
             cached == get_cached(cache, key, today, DefaultMaxAgeDays, disk)
         IN  /\ waiter[t].pc = "idle"
             /\ \A u \in Threads : waiter[u].pc \in {"idle", "returned"}
             /\ upscale' = [pc |-> IF cached # PyNone THEN "done"
                                   ELSE IF inp.confirm_before_run THEN "confirm"
                                   ELSE "running",
                            inp |-> inp, thread |-> t, cached |-> cached,
                            cache_before |-> cache,
                            confirmed |-> PyNone,
                            events |->
                              LET e0 == send_status_event(<<>>, "estimate")
                                  e1 == send_status_event(e0, "cached")
                                  e2 == send_status_event(e0, "start")
                              IN  IF cached = TruncatedImage
                                  THEN send_status_event(e1, "error")
                                  ELSE IF cached # PyNone THEN e1
                                  ELSE IF inp.confirm_before_run THEN e2
                                  ELSE send_status_event(e2, "processing")]
             /\ node_ret' = IF cached # PyNone
                            THEN CachedReturn(cached, "cached", <<inp.seed>>)
                            ELSE NoReturn
             /\ pc' = IF cached = PyNone /\ ~inp.confirm_before_run
                      THEN "start" ELSE "idle"
             /\ remote' = IF cached = PyNone /\ ~inp.confirm_before_run
                          THEN sc.remote ELSE IdleRemote
             /\ latency' = IF cached = PyNone /\ ~inp.confirm_before_run
                           THEN sc.latency ELSE 0
    /\ calls' = calls + 1
    /\ max_wait' = UpscaleMaxWait
    /\ poll_interval' = UpscalePollInterval
    /\ progress_callback' = TRUE
    /\ reports' = <<>>
    /\ net' = <<>>
    /\ task_id' = PyNone
    /\ now' = 0
    /\ start_time' = 0
    /\ elapsed' = 0
    /\ polls' = 0
    /\ sleeps' = 0
    /\ status' = NoStatus
    /\ downloads' = <<>>
    /\ outcome' = NoResult
    /\ UNCHANGED <<api_key, op, ret, cache, today, call, batch, peer>>
    /\ UNCHANGED <<cacheVars, HAS_SERVER, confirmation_responses, confirmation_lock,
                   waiter, handler, clock>>

\* remove_bg, remove_bg_node.py 49-145: the cache lookup, the request to the
\* synchronous endpoint, the download, the store and the return, or the
\* except branch.
RemoveBg ==
    /\ upscale.pc \in {"idle", "done"}
    /\ pc = "idle"
    /\ calls < MaxUpscales
    /\ \E use_cache \in BOOLEAN, disk \in {"ok", "unreadable"},
          answer \in {"200", "404"}, response \in RemoveBgResponses,
          io \in {"ok", "image_fails", "meta_fails"} :
         LET key == remove_bg_cache_key
             t == IF waiter["t1"].pc = "idle" THEN "t1" ELSE "t2"
             looked == use_cache
                       /\ has_cached(cache, key, today, DefaultMaxAgeDays)
             cached == cached_lookup(use_cache, cache, key, today,
                                     DefaultMaxAgeDays, disk)
             r == remove_bg_remote(api_key, answer, response)
         IN  /\ disk = "unreadable" => looked
             /\ answer = "404" => response.high_resolution = UrlA
             /\ io # "ok" => (use_cache /\ cached = PyNone /\ r[1].ok)
             /\ waiter[t].pc = "idle"
             /\ \A u \in Threads : waiter[u].pc \in {"idle", "returned"}
             /\ upscale' = [pc |-> "done",
                            inp |-> [kind |-> "remove_bg", seed |-> "",
                                     output_area |-> 0,
                                     confirm_before_run |-> FALSE,
                                     use_cache |-> use_cache],
                            thread |-> t, cached |-> cached,
                            cache_before |-> cache, confirmed |-> PyNone,
                            events |-> <<>>, n |-> calls + 1]
             /\ IF cached # PyNone
                THEN /\ node_ret' = CachedReturn(cached, "cached", <<>>)
                     /\ UNCHANGED cache
                     /\ net' = <<>>
                     /\ downloads' = <<>>
                     /\ outcome' = NoResult
                ELSE /\ net' = r[3]
                     /\ downloads' = r[2]
                     /\ outcome' = r[1]
                     /\ IF r[1].ok
                        THEN /\ cache' = IF use_cache
                                         THEN save_to_cache(
                                                cache, key, r[1].val,
                                                <<<<"operation",
                                                    "remove_background">>>>,
                                                today, io)
                                         ELSE cache
                             /\ node_ret' = NodeReturn(Tensor(r[1].val),
                                                       "success",
                                                       <<"removed_bg">>, 0)
                        ELSE /\ UNCHANGED cache
                             /\ node_ret' = error_return(r[1])
    /\ calls' = calls + 1
    /\ reports' = <<>>
    /\ task_id' = PyNone
    /\ now' = 0
    /\ start_time' = 0
    /\ elapsed' = 0
    /\ polls' = 0
    /\ sleeps' = 0
    /\ status' = NoStatus
    /\ UNCHANGED <<api_key, op, ret, pc, max_wait, poll_interval, latency,
                   remote, progress_callback, today, call, batch, peer>>
    /\ UNCHANGED <<cacheVars, HAS_SERVER, confirmation_responses, confirmation_lock,
                   waiter, handler, clock>>

\* Lines 352-356 and 567-571: request_confirmation has returned; return
\* "cancelled|user", or go on to execute_and_wait (lines 372-378, 587-593).
UpscaleGate ==
    /\ upscale.pc = "confirm"
    /\ waiter[upscale.thread].pc = "returned"
    /\ LET confirmed == waiter[upscale.thread].result
           go == confirm_gate(upscale.inp.confirm_before_run, confirmed)
       IN  /\ upscale' = [upscale EXCEPT
                            !.pc = IF go = "cancel" THEN "done" ELSE "running",
                            !.confirmed = confirmed,
                            !.events =
                               IF go = "cancel"
                               THEN send_status_event(upscale.events, "error")
                               ELSE send_status_event(
                                      send_status_event(upscale.events, "start"),
                                      "processing")]
           /\ pc' = IF go = "cancel" THEN "idle" ELSE "start"
           /\ node_ret' = IF go = "cancel"
                          THEN NodeReturn(Tensor(create_error_image),
                                          "cancelled", <<"user">>, 0)
                          ELSE node_ret
           /\ \E sc \in UpscaleScenarios :
                IF go = "cancel" THEN UNCHANGED <<remote, latency>>
                ELSE remote' = sc.remote /\ latency' = sc.latency
    /\ UNCHANGED <<api_key, net, op, ret, max_wait, poll_interval,
                   task_id, now, start_time, elapsed, polls, sleeps,
                   status, downloads, outcome, cache, today, call, calls>>
    /\ UNCHANGED <<callVars, reports, cacheVars, HAS_SERVER, confirmation_responses,
                   confirmation_lock, waiter, handler, clock>>

\* Lines 381-399 and 595-612, or the handler of lines 401-405 and 614-618:
\* execute_and_wait has returned or raised.
UpscaleFinish ==
    /\ upscale.pc = "running"
    /\ pc \in {"returned", "raised"}
    /\ \E io \in {"ok", "image_fails", "meta_fails"} :
         LET inp == upscale.inp
         IN  IF pc = "returned"
             THEN /\ cache' = save_to_cache(cache, upscale_cache_key(inp),
                                            outcome.val,
                                            upscale_extra_metadata(inp),
                                            today, io)
                  /\ node_ret' = NodeReturn(Tensor(outcome.val), "success",
                                            <<inp.seed>>,
                                            upscale_estimate_cost(inp.output_area))
             ELSE /\ cache' = cache
                  /\ node_ret' = error_return(outcome)
    /\ pc' = "idle"
    /\ upscale' = [upscale EXCEPT
                     !.pc = "done",
                     !.events = send_status_event(
                                  polling_events(upscale.events, Len(reports)),
                                  IF pc = "returned" THEN "completed"
                                  ELSE "error")]
    /\ UNCHANGED <<api_key, net, op, ret, max_wait, poll_interval, latency,
                   remote, task_id, now, start_time, elapsed, polls, sleeps,
                   status, downloads, outcome, today, call, calls>>
    /\ UNCHANGED <<callVars, reports, cacheVars, HAS_SERVER, confirmation_responses,
                   confirmation_lock, waiter, handler, clock>>

\* upscale calls request_confirmation at lines 345-350 and 560-565.  The
\* clock of the dialog matters, and is advanced, only while an upscale call
\* waits for its confirmation; so are the responses the front end posts.
NextUpscale ==
    \/ UpscaleStart
    \/ RemoveBg
    \/ (upscale.pc = "confirm" /\ RequestConfirmation(upscale.thread))
    \/ \E t \in Threads : WaitTest(t)
    \/ \E t \in Threads : WaitAcquire(t)
    \/ \E t \in Threads : WaitCheck(t)
    \/ \E t \in Threads : WaitSleep(t)
    \/ (upscale.pc = "confirm" /\ HandlerReceive)
    \/ HandlerAcquire
    \/ HandlerInsert
    \/ (upscale.pc = "confirm" /\ Tick)
    \/ UpscaleGate
    \/ Submit
    \/ Poll
    \/ Sleep
    \/ Timeout
    \/ UpscaleFinish

SpecUpscale == InitUpscale /\ [][NextUpscale]_vars

---------------------------------------------------------------------------
(* One upscale or remove_bg call on a cache that earlier calls have left *)

\* What earlier calls can have left in the cache: nothing; the entry of an
\* upscale call that stored its result; that entry after a later call for
\* the same parameters whose image.save broke off part-way.
LeftCaches ==
    LET none == [k \in UpscaleKeys \cup {remove_bg_cache_key} |-> NoEntry]
        stored(inp) == save_to_cache(none, upscale_cache_key(inp), "image-A",
                                     upscale_extra_metadata(inp), 0, "ok")
        cut(inp) == save_to_cache(stored(inp), upscale_cache_key(inp),
                                  "image-B", upscale_extra_metadata(inp), 0,
                                  "image_partial")
    IN  {none} \cup {stored(inp) : inp \in UpscaleInputs}
               \cup {cut(inp) : inp \in UpscaleInputs}

InitLastCall ==
    /\ api_key = "key-A"
    /\ InitClient
    /\ IdleOrch
    /\ cache \in LeftCaches
    /\ today = 0
    /\ call = NoCall
    /\ calls = MaxUpscales - 1
    /\ node_ret = NoReturn
    /\ InitCallsIdle
    /\ InitCacheIdle
    /\ HAS_SERVER \in BOOLEAN
    /\ confirmation_responses = NoResponses
    /\ confirmation_lock = "free"
    /\ waiter = [t \in Threads |-> NoWaiter]
    /\ handler = NoHandler
    /\ clock = 0
    /\ upscale = NoUpscale

SpecLastCall == InitLastCall /\ [][NextUpscale]_vars

---------------------------------------------------------------------------
(* generate and remove_bg calls, with and without use_cache, on one cache *)

InitOneCache ==
    /\ api_key = "key-A"
    /\ InitClient
    /\ IdleOrch
    /\ cache = [k \in NodeKeys \cup {remove_bg_cache_key} |-> NoEntry]
    /\ today = 0
    /\ call = NoCall
    /\ calls = 0
    /\ node_ret = NoReturn
    /\ InitCallsIdle
    /\ InitCacheIdle
    /\ InitConfirmIdle

NextOneCache ==
    \/ MysticGenerate
    \/ Submit
    \/ Poll
    \/ Sleep
    \/ Timeout
    \/ MysticFinish
    \/ RemoveBg

SpecOneCache == InitOneCache /\ [][NextOneCache]_vars

---------------------------------------------------------------------------
(* utils/cache.py: _get_cache_key, and the cache_key_params the nodes give *)
(* it.  A value of a dict is held as its JSON text.                        *)

\* The keys of the nodes' dicts, in the order sort_keys=True puts them.
SortedKeyNames ==
    <<"api", "aspect_ratio", "creativity", "denoise", "engine", "fractality",
      "hdr", "image_hash", "mode", "negative_prompt", "num_images",
      "operation", "optimized_for", "prompt", "resemblance", "resolution",
      "scale_factor", "seed", "sharpen">>

\* json.dumps(d) without sort_keys: the pairs as they were inserted.
json_dumps_as_inserted(d) == d

\* json.dumps(d, sort_keys=True, default=str): the pairs in key order.
json_dumps(d) ==
    LET present == SelectSeq(SortedKeyNames,
                             LAMBDA k : \E i \in 1..Len(d) : d[i][1] = k)
    IN  [i \in 1..Len(present) |-> <<present[i], dict_get(d, present[i])>>]

\* _get_cache_key(params), for a dict.
dict_cache_key(d) == md5(json_dumps(d))

\* An input image: the object it is (a copy is another object), and the PNG
\* it encodes to, in two parts: what the first 1000 characters of its
\* base64 text cover, and the rest.
Images == [obj : {1, 2}, head : {"A", "B"}, tail : {"x", "y"}]
pil2base64(image) == <<image.head, image.tail>>

\* hashlib.md5(image_base64[:1000].encode()).hexdigest()[:8]
upscale_image_hash(image) == [md5 |-> pil2base64(image)[1], chars |-> 8]

\* hashlib.md5(img_byte_arr.getvalue()).hexdigest()
remove_bg_image_hash(image) == md5(pil2base64(image))

\* The requests the nodes get; the settings not named are the same in all.
KeyRequests ==
    [node : {"mystic", "creative", "precision", "remove_bg"},
     seed : {"-1", "1", "2"}, image : Images]

\* cache_key_params that never holds the seed.
node_cache_key_params_unseeded(rq) ==
    CASE rq.node = "mystic" ->
           <<<<"prompt", "cat">>, <<"negative_prompt", "">>,
             <<"num_images", "1">>, <<"resolution", "2k">>,
             <<"aspect_ratio", "1:1">>, <<"api", "mystic">>>>
      [] rq.node = "creative" ->
           <<<<"image_hash", upscale_image_hash(rq.image)>>,
             <<"scale_factor", "2x">>>>
      [] rq.node = "precision" ->
           <<<<"image_hash", upscale_image_hash(rq.image)>>,
             <<"scale_factor", "2x">>, <<"mode", "precision">>>>
      [] OTHER ->
           <<<<"operation", "remove_bg">>,
             <<"image_hash", remove_bg_image_hash(rq.image)>>>>

\* cache_key_params as generate (mystic_node.py 126-149), the two upscale
\* methods (upscaler_nodes.py 304-316, 526-533) and remove_bg
\* (remove_bg_node.py 71) build it.
node_cache_key_params(rq) ==
    CASE rq.node = "mystic" ->
           <<<<"prompt", "cat">>, <<"negative_prompt", "">>,
             <<"num_images", "1">>, <<"resolution", "2k">>,
             <<"aspect_ratio", "1:1">>>>
           \o (IF rq.seed # "-1" THEN <<<<"seed", rq.seed>>>> ELSE <<>>)
           \o <<<<"api", "mystic">>>>
      [] rq.node = "creative" ->
           <<<<"image_hash", upscale_image_hash(rq.image)>>,
             <<"scale_factor", "2x">>, <<"optimized_for", "standard">>,
             <<"engine", "automatic">>, <<"creativity", "0">>,
             <<"hdr", "0">>, <<"resemblance", "0">>, <<"fractality", "0">>,
             <<"prompt", "">>, <<"seed", rq.seed>>>>
      [] rq.node = "precision" ->
           <<<<"image_hash", upscale_image_hash(rq.image)>>,
             <<"scale_factor", "2x">>, <<"denoise", "0">>,
             <<"sharpen", "0">>, <<"mode", "precision">>,
             <<"seed", rq.seed>>>>
      [] OTHER ->
           <<<<"operation", "remove_bg">>,
             <<"image_hash", remove_bg_image_hash(rq.image)>>>>

\* The same dict with its keys inserted in another order.
Reverse(d) == [i \in 1..Len(d) |-> d[Len(d) + 1 - i]]
Rotate(d) == IF d = <<>> THEN d ELSE Tail(d) \o <<Head(d)>>
Reorderings(d) == {d, Reverse(d), Rotate(d)}

\* Two requests, and the first one's dict built again in another order (in
\* another process, say); no key has been made.
InitKey ==
    /\ api_key = ""
    /\ InitClient
    /\ IdleOrch
    /\ InitNode
    /\ InitCallsIdle
    /\ InitConfirmIdle
    /\ job = <<>>
    /\ \E a \in KeyRequests, b \in KeyRequests :
         \E again \in Reorderings(node_cache_key_params(a)) :
            fp = [pc |-> "first", a |-> a, b |-> b, again |-> again,
                  key_a |-> Absent, key_again |-> Absent, key_b |-> Absent]

\* _get_cache_key is called: with the first request's dict, then with that
\* dict built again, then with the second request's dict.
GetCacheKey ==
    /\ fp.pc \in {"first", "again", "second"}
    /\ fp' = CASE fp.pc = "first" ->
                   [fp EXCEPT !.key_a = dict_cache_key(node_cache_key_params(fp.a)),
                              !.pc = "again"]
              [] fp.pc = "again" ->
                   [fp EXCEPT !.key_again = dict_cache_key(fp.again),
                              !.pc = "second"]
              [] OTHER ->
                   [fp EXCEPT !.key_b = dict_cache_key(node_cache_key_params(fp.b)),
                              !.pc = "done"]
    /\ UNCHANGED clientVars
    /\ UNCHANGED orchVars
    /\ UNCHANGED nodeVars
    /\ UNCHANGED <<callVars, reports, confirmVars, job>>

NextKey == GetCacheKey

SpecKey == InitKey /\ [][NextKey]_vars

---------------------------------------------------------------------------
(* utils/cache.py: the cache called directly, one operation at a time *)

MaxCacheOps == 3

\* Two parameter sets, the images stored, and the extra_metadata given:
\* none, a node's, and one with a key the cache writes itself.
CacheKeys ==
    {dict_cache_key(<<<<"operation", "remove_bg">>, <<"image_hash", h>>>>) :
        h \in {"h1", "h2"}}
CacheImages == {"image-A", "image-B"}
ExtraMetadata ==
    {<<>>, <<<<"operation", "remove_background">>>>,
     <<<<"operation", "remove_background">>, <<"timestamp", NotADate>>>>}
ClearAges == {DefaultMaxAgeDays \div 2, DefaultMaxAgeDays}
RemoveOutcomes == {"ok", "image_remove_fails", "meta_remove_fails"}

InitCache ==
    /\ api_key = ""
    /\ InitClient
    /\ IdleOrch
    /\ cache = [k \in CacheKeys |-> NoEntry]
    /\ today = 0
    /\ call = NoCall
    /\ calls = 0
    /\ node_ret = NoReturn
    /\ InitCallsIdle
    /\ InitConfirmIdle
    /\ fp = [pc |-> "idle"]
    /\ job = [op |-> "none", n |-> 0]

CacheIdle ==
    /\ UNCHANGED clientVars
    /\ UNCHANGED orchVars
    /\ UNCHANGED <<call, calls, node_ret, callVars, reports, confirmVars, fp>>

\* save_to_cache(params, image, extra_metadata)
CacheSave ==
    /\ job.n < MaxCacheOps
    /\ \E key \in CacheKeys, image \in CacheImages, extra \in ExtraMetadata,
          io \in WriteOutcomes :
         /\ cache' = save_to_cache(cache, key, image, extra, today, io)
         /\ job' = [op |-> "save", n |-> job.n + 1, key |-> key,
                    image |-> image, extra |-> extra, io |-> io,
                    day |-> today]
    /\ UNCHANGED today
    /\ CacheIdle

\* has_cached(params) and get_cached(params)
CacheLookup ==
    /\ job.n < MaxCacheOps
    /\ \E key \in CacheKeys, disk \in {"ok", "unreadable"} :
         job' = [op |-> "lookup", n |-> job.n + 1, key |-> key, disk |-> disk,
                 has |-> has_cached(cache, key, today, DefaultMaxAgeDays),
                 image |-> get_cached(cache, key, today, DefaultMaxAgeDays,
                                      disk),
                 day |-> today]
    /\ UNCHANGED <<cache, today>>
    /\ CacheIdle

\* clear_cache() and clear_cache(older_than_days)
CacheClear ==
    /\ job.n < MaxCacheOps
    /\ \E all \in BOOLEAN, d \in ClearAges, io \in RemoveOutcomes :
         LET r == clear_cache(cache, all, d, today, io)
         IN  /\ all => io = "ok"
             /\ cache' = r.cache
             /\ job' = [op |-> "clear", n |-> job.n + 1, all |-> all,
                        older_than_days |-> d, cleared |-> r.cleared,
                        io |-> io, day |-> today]
    /\ UNCHANGED today
    /\ CacheIdle

\* Days pass between two operations.
CacheDaysPass ==
    /\ \E d \in DaySteps : today + d <= MaxDay /\ today' = today + d
    /\ UNCHANGED <<cache, job>>
    /\ CacheIdle

NextCache == CacheSave \/ CacheLookup \/ CacheClear \/ CacheDaysPass

SpecCache == InitCache /\ [][NextCache]_vars

---------------------------------------------------------------------------
(* Node calls that share the cache and run at the same time *)

MaxShareCalls == 2

\* A thread that is in no call.
NoJob == [pc |-> "idle", n |-> 0, key |-> PyNone, image |-> PyNone,
          result |-> PyNone, clash |-> FALSE]

\* job.run: where each thread is in its call, the key of the call, the
\* image the remote gave it and what its lookup returned.  job.seen: the
\* image the first lookup that found a whole image for a key returned.
InitShare ==
    /\ api_key = ""
    /\ InitClient
    /\ IdleOrch
    /\ cache = [k \in CacheKeys |-> NoEntry]
    /\ today = 0
    /\ call = NoCall
    /\ calls = 0
    /\ node_ret = NoReturn
    /\ InitCallsIdle
    /\ InitConfirmIdle
    /\ fp = [pc |-> "idle"]
    /\ job = [run |-> [t \in Threads |-> NoJob],
              seen |-> [k \in CacheKeys |-> Absent]]

ShareIdle == UNCHANGED today /\ CacheIdle

\* The thread goes from one place of its call to the next.
Goes(t, from, to) ==
    /\ job.run[t].pc = from
    /\ job' = [job EXCEPT !.run[t].pc = to]

\* A node is called with caching on: remove_bg_node.py 74-75,
\* upscaler_nodes.py 333 and 548, mystic_node.py 151-153.
ShareCall(t) ==
    /\ job.run[t].pc \in {"idle", "done"}
    /\ job.run[t].n < MaxShareCalls
    /\ \E key \in CacheKeys :
         job' = [job EXCEPT !.run[t] = [NoJob EXCEPT !.pc = "exists",
                                                     !.n = job.run[t].n + 1,
                                                     !.key = key]]
    /\ UNCHANGED cache
    /\ ShareIdle

\* has_cached, line 86: a file is missing, and the call goes on to the
\* remote; or both are there.
ShareFilesExist(t) ==
    /\ Goes(t, "exists",
            IF files_exist(cache[job.run[t].key]) THEN "age" ELSE "remote")
    /\ UNCHANGED cache
    /\ ShareIdle

\* has_cached, lines 90-105: the metadata file is read.
ShareReadAge(t) ==
    /\ Goes(t, "age",
            IF not_expired(cache[job.run[t].key], today, DefaultMaxAgeDays)
            THEN "open" ELSE "remote")
    /\ UNCHANGED cache
    /\ ShareIdle

\* get_cached, lines 123-129, and the node's return of the cached image.
ShareImageOpen(t) ==
    /\ job.run[t].pc = "open"
    /\ \E disk \in {"ok", "unreadable"} :
         LET key == job.run[t].key
             image == image_open(cache[key], disk)
         IN  job' = [job EXCEPT
                       !.run[t].pc = IF image = PyNone THEN "remote" ELSE "done",
                       !.run[t].result = image,
                       !.seen[key] = IF /\ image \in CacheImages
                                        /\ job.seen[key] = Absent
                                     THEN image ELSE job.seen[key]]
    /\ UNCHANGED cache
    /\ ShareIdle

\* The remote work of the call ends with an image.
ShareRemote(t) ==
    /\ job.run[t].pc = "remote"
    /\ \E image \in CacheImages :
         job' = [job EXCEPT !.run[t].pc = "save", !.run[t].image = image]
    /\ UNCHANGED cache
    /\ ShareIdle

\* save_to_cache, line 151: image.save opens the image file.  A thread that
\* is writing the same file then is no longer its only writer.
ShareSaveImageOpen(t) ==
    /\ job.run[t].pc = "save"
    /\ LET key == job.run[t].key
           writers == {u \in Threads \ {t} : /\ job.run[u].pc = "image_write"
                                            /\ job.run[u].key = key}
       IN  /\ cache' = save_image_open(cache, key, job.run[t].image)
           /\ job' = [job EXCEPT
                        !.run = [u \in Threads |->
                                   IF u = t
                                   THEN [job.run[t] EXCEPT
                                           !.pc = "image_write",
                                           !.clash = writers # {}]
                                   ELSE IF u \in writers
                                   THEN [job.run[u] EXCEPT !.clash = TRUE]
                                   ELSE job.run[u]]]
    /\ ShareIdle

\* save_to_cache, line 151: image.save has written the file to its end.
\* Two threads that wrote one file at a time leave the bytes of the one, of
\* the other, or a mix of both.
ShareSaveImageWritten(t) ==
    /\ Goes(t, "image_write", "meta")
    /\ LET key == job.run[t].key
       IN  \E bytes \in {"mine", "theirs", "mix"} :
             /\ bytes # "mine" => job.run[t].clash
             /\ cache' =
                  CASE bytes = "mine" ->
                         save_image_written(
                           [cache EXCEPT ![key].image = job.run[t].image], key)
                    [] bytes = "theirs" -> cache
                    [] OTHER -> [cache EXCEPT ![key].whole = FALSE]
    /\ ShareIdle

\* save_to_cache, line 164: the metadata file is opened for writing.
ShareSaveMetadataOpen(t) ==
    /\ Goes(t, "meta", "meta_write")
    /\ cache' = save_metadata_open(cache, job.run[t].key)
    /\ ShareIdle

\* save_to_cache, line 165, and the node's return of its result.
ShareSaveMetadataWritten(t) ==
    /\ Goes(t, "meta_write", "done")
    /\ cache' = save_metadata_written(cache, job.run[t].key, job.run[t].image,
                                      <<>>, today)
    /\ ShareIdle

NextShare ==
    \/ \E t \in Threads : ShareCall(t)
    \/ \E t \in Threads : ShareFilesExist(t)
    \/ \E t \in Threads : ShareReadAge(t)
    \/ \E t \in Threads : ShareImageOpen(t)
    \/ \E t \in Threads : ShareRemote(t)
    \/ \E t \in Threads : ShareSaveImageOpen(t)
    \/ \E t \in Threads : ShareSaveImageWritten(t)
    \/ \E t \in Threads : ShareSaveMetadataOpen(t)
    \/ \E t \in Threads : ShareSaveMetadataWritten(t)

SpecShare == InitShare /\ [][NextShare]_vars

---------------------------------------------------------------------------
(* Node calls made on one node instance at the same time *)

MaxInstanceCalls == 2

\* A thread that is in no call of the node.
NoInstanceCall ==
    [pc |-> "idle", n |-> 0, api_key |-> PyNone, sent |-> <<>>,
     overlapped |-> FALSE, result |-> NoResult]

\* job.client and job.task_manager: the fields of the node instance, each
\* held as the API key of the client object it leads to (PyNone: None, as
\* __init__ leaves them).  job.run: where each thread is in its call, the
\* api_key it was called with, the requests sent for it, and whether
\* another call was under way during it.
InitInstance ==
    /\ api_key = ""
    /\ InitClient
    /\ IdleOrch
    /\ InitNode
    /\ InitCallsIdle
    /\ InitConfirmIdle
    /\ fp = [pc |-> "idle"]
    /\ job = [client |-> PyNone, task_manager |-> PyNone,
              run |-> [t \in Threads |-> NoInstanceCall]]

InstanceIdle == UNCHANGED <<cache, today>> /\ CacheIdle

InCall(t) == job.run[t].pc \notin {"idle", "done"}

\* generate or upscale is called with an api_key.
InstanceCall(t) ==
    /\ ~InCall(t)
    /\ job.run[t].n < MaxInstanceCalls
    /\ \E key \in GoodKeys :
         job' = [job EXCEPT
                   !.run = [u \in Threads |->
                              IF u = t
                              THEN [NoInstanceCall EXCEPT
                                      !.pc = "test",
                                      !.n = job.run[t].n + 1,
                                      !.api_key = key,
                                      !.overlapped =
                                         \E v \in Threads \ {t} : InCall(v)]
                              ELSE IF InCall(u)
                              THEN [job.run[u] EXCEPT !.overlapped = TRUE]
                              ELSE job.run[u]]]
    /\ InstanceIdle

\* mystic_node.py 121, upscaler_nodes.py 263 and 496: the test
\* self.client is None or self.client.api_key != api_key.
InstanceTest(t) ==
    /\ job.run[t].pc = "test"
    /\ job' = [job EXCEPT
                 !.run[t].pc = IF job.client = PyNone
                                  \/ job.client # job.run[t].api_key
                               THEN "new_client" ELSE "execute"]
    /\ InstanceIdle

\* Line 122 (264, 497): self.client = FreepikAPIClient(api_key).
InstanceNewClient(t) ==
    /\ job.run[t].pc = "new_client"
    /\ job' = [job EXCEPT !.client = job.run[t].api_key,
                          !.run[t].pc = "new_manager"]
    /\ InstanceIdle

\* Line 123 (265, 498): self.task_manager = FreepikTaskManager(self.client),
\* with the client the field holds at that moment.
InstanceNewManager(t) ==
    /\ job.run[t].pc = "new_manager"
    /\ job' = [job EXCEPT !.task_manager = job.client,
                          !.run[t].pc = "execute"]
    /\ InstanceIdle

\* Line 167 (373, 588): self.task_manager.execute_and_wait(...), on the
\* manager the field holds at that moment; its requests are those of a task
\* that is completed at the first poll.  A field that is still None raises
\* AttributeError.
InstanceExecute(t) ==
    /\ job.run[t].pc = "execute"
    /\ LET key == job.task_manager
           c == create_task(key, Endpoint, GoodCreate.answer,
                            GoodCreate.response)
           p == Completed(<<JStr(UrlA)>>)
           g == get_task_status(key, c[1].val, p.answers, p.body)
           b == loop_body(key, g, NoStatus)
       IN  job' = [job EXCEPT
                     !.run[t].pc = "done",
                     !.run[t].sent = IF key = PyNone THEN <<>>
                                     ELSE c[2] \o b.net,
                     !.run[t].result =
                        IF key = PyNone
                        THEN Raise("AttributeError",
                                   "'NoneType' object has no attribute 'execute_and_wait'",
                                   "")
                        ELSE b.outcome]
    /\ InstanceIdle

NextInstance ==
    \/ \E t \in Threads : InstanceCall(t)
    \/ \E t \in Threads : InstanceTest(t)
    \/ \E t \in Threads : InstanceNewClient(t)
    \/ \E t \in Threads : InstanceNewManager(t)
    \/ \E t \in Threads : InstanceExecute(t)

SpecInstance == InitInstance /\ [][NextInstance]_vars

---------------------------------------------------------------------------
(* Claims about the client (SpecClient) *)

TransportOps == {"post", "get", "create_task", "get_task_status",
                 "download_image"}

\* The identifier at the first of the four locations that holds one
\* (Absent: none does).
FirstLocation(r) ==
    CASE r.data_task_id # Absent -> r.data_task_id
      [] r.data_id # Absent      -> r.data_id
      [] r.task_id # Absent      -> r.task_id
      [] OTHER                   -> r.id

\* C8: create_task returns the identifier found at the first matching
\* location among data.task_id, data.id, task_id, id, raises when none of the
\* four holds one, and never returns None.
C8_CreateTaskFirstLocationOrRaise ==
    (op.name = "create_task" /\ api_key \in GoodKeys /\ op.arg.answer = "200")
    => /\ FirstLocation(op.arg.response) # Absent
            => ret = Return(FirstLocation(op.arg.response))
       /\ FirstLocation(op.arg.response) = Absent => ~ret.ok
       /\ ret.ok => ret.val # NoneStr

\* The candidates that answer 200.
Succeeding(answers) == {i \in 1..NumCandidates : answers[i] = "200"}
FirstSucceeding(answers) ==
    CHOOSE i \in Succeeding(answers) : \A j \in Succeeding(answers) : i <= j

\* C9: get_task_status tries the candidates in the order of the list, returns
\* the response of the first one that succeeds without contacting a later
\* one, and raises only when all have failed, the error being the last
\* candidate's.
C9_FirstSucceedingCandidate ==
    (op.name = "get_task_status" /\ api_key \in GoodKeys)
    => LET a == op.arg.answers
           tid == op.arg.tid
           sentTo(k) == [i \in 1..k |->
                           Request("GET", StatusEndpoint(i, tid), api_key)]
       IN  IF Succeeding(a) # {}
           THEN /\ ret = Return(op.arg.body)
                /\ net = sentTo(FirstSucceeding(a))
           ELSE /\ ~ret.ok
                /\ ret.detail = StatusEndpoint(NumCandidates, tid)
                /\ ret.msg = (IF a[NumCandidates] = "conn" THEN "Request failed"
                              ELSE "HTTP Error")
                /\ net = sentTo(NumCandidates)

\* C9 witnesses: the first two candidates fail, the third answers and the
\* fourth would have; and all four fail with different errors.
C9_Witness ==
    /\ op.name = "get_task_status"
    /\ api_key \in GoodKeys
    /\ Succeeding(op.arg.answers) = {3, 4}
    /\ ret.ok
    /\ Len(net) = 3

\* C10: with no API key set, every transport operation fails with the
\* missing-credential error and sends no request.
C10_NoKeyNoRequest ==
    (op.name \in TransportOps /\ api_key \notin GoodKeys)
    => /\ ~ret.ok
       /\ ret.type = "ValueError"
       /\ net = <<>>

---------------------------------------------------------------------------
(* Claims about execute_and_wait (Spec) *)

Terminal == pc \in {"returned", "raised"}
BudgetExhausted ==
    pc = "raised" /\ ~outcome.ok /\ outcome.type = "TimeoutError"

\* The response the last poll made was answered with, once one was made and
\* some candidate endpoint answered it.
Answered == polls > 0 /\ Succeeding(PollAnswer(remote, polls).answers) # {}
LastPolled == PollAnswer(remote, polls).body

\* The remotes that report queued, in_progress, completed on successive
\* polls, the result being a list of URLs of stored images.
C2_Scripts ==
    { PrefixOf(<<"queued", "in_progress">>)
      \o <<Scripted(AllAnswer("200"),
                    StatusResponse(TRUE, "completed", TRUE, JList(xs), Absent))>> :
        xs \in {<<JStr(UrlA)>>, <<JStr(UrlB), JStr(UrlA)>>} }

\* C2: against a remote that reports queued, in_progress, completed, and
\* unless the budget runs out first, execute_and_wait polls exactly three
\* times, sleeps after each of the first two polls, downloads the first
\* element of data.generated exactly once and returns it decoded; once
\* completed is observed no poll follows.
C2_ThreePollsOneDownload ==
    (remote.polls \in C2_Scripts /\ polls > 0)
    => LET first == remote.polls[3].body.generated.items[1]
       IN  /\ polls <= 3
           /\ pc = "loop" => sleeps = polls
           /\ pc = "sleep" => sleeps = polls - 1 /\ polls < 3
           /\ status.state = "completed" => Terminal /\ polls = 3
           /\ polls < 3 => downloads = <<>>
           /\ (Terminal /\ ~BudgetExhausted)
                => /\ pc = "returned"
                   /\ polls = 3
                   /\ sleeps = 2
                   /\ downloads = <<first>>
                   /\ outcome = ImageOpen(Content(first.s))
                   /\ outcome.ok

C2_Witness ==
    /\ remote.polls \in C2_Scripts
    /\ Len(remote.polls[3].body.generated.items) = 2
    /\ pc = "returned"
    /\ polls = 3
    /\ sleeps = 2
    /\ downloads = <<JStr(UrlB)>>
    /\ outcome = Return("image-B")

\* Every poll is answered with a non-terminal status.
AllPending ==
    \A i \in 1..Len(remote.polls) :
        /\ remote.polls[i].answers = AllAnswer("200")
        /\ remote.polls[i].body \in PendingResponses

\* C3: with max_wait > 0 and polls that take no time, when every poll
\* reports a non-terminal status execute_and_wait ends with TimeoutError and
\* has never blocked longer than max_wait + poll_interval since submission.
C3_TimeoutWithinBudgetPlusInterval ==
    (AllPending /\ max_wait > 0 /\ latency = 0 /\ polls > 0)
    => /\ Terminal => BudgetExhausted
       /\ now - start_time <= (max_wait + poll_interval) * TicksPerSec

\* The statuses of the claims' words, in the spellings the remote may use.
PollingWords == {"created", "queued", "pending", "in_progress", "processing",
                 "QUEUED", "In_Progress"}
SuccessWords == {"completed", "success", "COMPLETED", "Success"}
FailureWords == {"failed", "error", "FAILED", "Error"}

\* C4: a poll reporting failed or error with data.error = x ends
\* execute_and_wait with a remote-task failure carrying x, with no further
\* poll and no download; without an error message the failure carries the
\* text 'Unknown error'.
C4_FailureCarriesMessage ==
    (Answered /\ LastPolled.env /\ LastPolled.status \in FailureWords)
    => /\ pc = "raised"
       /\ outcome.msg = "Task failed"
       /\ outcome.detail = (IF LastPolled.error = Absent THEN "Unknown error"
                            ELSE LastPolled.error)
       /\ downloads = <<>>
       /\ polls = Len(remote.polls)

\* C5: the status of a poll response decides, whatever its letter case, what
\* execute_and_wait does: created, queued, pending, in_progress, processing
\* keep it polling; completed, success take the success path; failed, error
\* the failure path; anything else, an empty or missing status included,
\* ends it at once with the unknown-status error.
C5_StatusMapping ==
    (/\ Answered
     /\ LastPolled.env
     /\ LastPolled.status # PyNone
     /\ ~LastPolled.hasGenerated \/ LastPolled.generated.t = "list")
    => LET s == LastPolled.status
       IN  CASE s \in PollingWords ->
                  pc \in {"sleep", "loop"} \/ BudgetExhausted
             [] s \in SuccessWords ->
                  /\ Terminal
                  /\ status.state \in SuccessStates
                  /\ \/ pc = "returned"
                     \/ outcome.msg \in {"No output URL in successful task",
                                         "Failed to download image",
                                         "cannot identify image file"}
             [] s \in FailureWords ->
                  pc = "raised" /\ outcome.msg = "Task failed"
             [] OTHER ->
                  /\ pc = "raised"
                  /\ outcome.msg = "Unknown status"
                  /\ polls = Len(remote.polls)

C5_Witness ==
    /\ Answered
    /\ polls = 3
    /\ remote.polls[1].body.status = "QUEUED"
    /\ LastPolled.status = "Cancelled"
    /\ pc = "raised"
    /\ outcome = Raise("Exception", "Unknown status", "cancelled")

\* A success response whose result reference is missing or empty.
MissingReference(b) ==
    \/ ~b.hasGenerated
    \/ b.generated = JList(<<>>)
    \/ /\ b.generated.t = "dict"
       /\ b.generated.url = Absent
       /\ b.generated.image_url = Absent
    \/ /\ b.generated.t = "list"
       /\ Len(b.generated.items) > 0
       /\ b.generated.items[1].t = "dict"
       /\ b.generated.items[1].url = Absent
       /\ b.generated.items[1].image_url = Absent

\* C6: a success status whose result reference is missing or empty
\* (generated absent, an empty list, an object with neither url nor
\* image_url) ends execute_and_wait with the missing-result error, and
\* download_image is never called.
C6_MissingReferenceNoDownload ==
    (/\ Answered
     /\ LastPolled.env
     /\ LastPolled.status \in SuccessWords
     /\ MissingReference(LastPolled))
    => /\ pc = "raised"
       /\ outcome = Raise("Exception", "No output URL in successful task", "")
       /\ downloads = <<>>

\* The url (else image_url) field of an object.
UrlField(d) == IF d.url # Absent THEN d.url ELSE d.image_url

\* The URL a result reference names (Absent: none).
ReferencedUrl(g) ==
    LET e == IF g.t = "list" /\ Len(g.items) > 0 THEN g.items[1] ELSE g
    IN  CASE e.t = "str" /\ e.s # "" -> e.s
          [] e.t = "dict"            -> UrlField(e)
          [] OTHER                   -> Absent

\* C7: on a success status download_image is called with the first element
\* of a list of URL strings, the url (else image_url) field of the first
\* element of a list of objects, a single URL string itself, or the url
\* (else image_url) field of a single object.
C7_DownloadUrlByShape ==
    (/\ Answered
     /\ LastPolled.env
     /\ LastPolled.status \in SuccessWords
     /\ LastPolled.hasGenerated
     /\ ReferencedUrl(LastPolled.generated) # Absent)
    => downloads = <<JStr(ReferencedUrl(LastPolled.generated))>>

\* The polls made so far whose response was parsed: all of them, but for a
\* last one that no endpoint answered or whose body could not be parsed.
ParsedLast == Answered /\ parse_status(LastPolled).ok
ParsedPolls == IF polls > 0 /\ ~ParsedLast THEN polls - 1 ELSE polls

\* C14: with a progress callback, execute_and_wait calls it exactly once per
\* poll whose response was parsed, with that poll's normalized state and the
\* elapsed time, before acting on the state, so that the state that ends the
\* call is reported too; the elapsed values never decrease.
C14_ProgressReportedPerPoll ==
    IF ~progress_callback THEN reports = <<>>
    ELSE /\ Len(reports) = ParsedPolls
         /\ \A k \in 1..Len(reports) :
              /\ reports[k].status.state
                   = parse_status(PollAnswer(remote, k).body).val.state
              /\ reports[k].max_wait = max_wait
         /\ \A k \in 1..(Len(reports) - 1) :
              reports[k].elapsed <= reports[k + 1].elapsed
         /\ ParsedLast =>
              /\ reports[Len(reports)].status = status
              /\ reports[Len(reports)].elapsed = elapsed

\* Three polls were reported, the last one with the unknown state that ended
\* the call, at a later time than the first.
C14_Witness ==
    /\ progress_callback
    /\ pc = "raised"
    /\ outcome.msg = "Unknown status"
    /\ Len(reports) = 3
    /\ reports[1].status.state = "queued"
    /\ reports[3].status.state = "cancelled"
    /\ reports[3].elapsed > reports[1].elapsed

---------------------------------------------------------------------------
(* Claims about the node calls (SpecNode) *)

\* The entry of the key is stored whole and has not expired at day t.
Fresh(e, t) ==
    /\ e.image # Absent
    /\ e.whole
    /\ e.has_meta
    /\ read_age(e, t).ok
    /\ read_age(e, t).val <= DefaultMaxAgeDays

\* C1: with caching enabled, once a result is stored for a parameter set, a
\* later call with the same parameters made before the entry expires (the
\* image file being readable) returns the cached image, makes no remote
\* call at all (no submission, no poll, no download) and reports cost 0.
C1_CachedCallIsLocal ==
    [][ \A inp \in MysticInputs :
          (/\ calls' = calls + 1
           /\ call' = [inp |-> inp, disk |-> "ok", day |-> today]
           /\ inp.use_cache
           /\ Fresh(cache[get_cache_key(cache_key_params(inp))], today))
          => /\ node_ret'.image
                  = Tensor(cache[get_cache_key(cache_key_params(inp))].image)
             /\ node_ret'.task_info.kind = "cached_result"
             /\ node_ret'.cost = 0
             /\ net' = <<>>
             /\ polls' = 0
             /\ downloads' = <<>>
             /\ pc' = "idle"
             /\ cache' = cache ]_vars

\* A second call for "cat", made 30 days after the first one stored its
\* result, has been answered from the cache.
C1_Witness ==
    /\ calls = 2
    /\ call.inp.prompt = "cat"
    /\ call.inp.use_cache
    /\ call.day = DefaultMaxAgeDays
    /\ cache[get_cache_key(cache_key_params(call.inp))]
         = CacheEntry("image-B", TRUE, TRUE, FALSE,
                      metadata_dict(get_cache_key(cache_key_params(call.inp)),
                                    "image-B",
                                    mystic_extra_metadata(call.inp), 0))
    /\ node_ret = NodeReturn(Tensor("image-B"), "cached_result", <<>>, 0)
    /\ net = <<>>
    /\ polls = 0
    /\ pc = "idle"

---------------------------------------------------------------------------
(* Claims about the session (SpecSession) *)

\* The failures the retry strategy is said to retry after.
RetriedFailures == {"429", "500", "502", "503", "504", "conn"}

\* C11: a request sent through the session is attempted at most 1 + 3
\* times; an attempt is followed by another one only when it ended in a
\* 429, 500, 502, 503, 504 or a connection failure; any other error status
\* surfaces at once, and a retryable failure surfaces only after the last
\* retry.
C11_RetryOnlyListedStatuses ==
    op.name \in {"session.post", "session.get"}
    => LET raw == op.arg.raw
           n == Len(net)
       IN  /\ n >= 1
           /\ n <= 1 + RetryTotal
           /\ \A i \in 1..(n - 1) : raw[i].status \in RetriedFailures
           /\ raw[n].status \in RetriedFailures => n = 1 + RetryTotal /\ ~ret.ok
           /\ raw[n].status = "200" => ret.ok

---------------------------------------------------------------------------
(* Claims about two concurrent calls (SpecTwo) *)

\* The requests of a call that are status polls: the GETs sent to a
\* candidate status endpoint.
IsPoll(rq) == rq.method = "GET" /\ rq.url \notin Urls
\* The task id the remote r hands to the call that submits to it.
IssuedId(r) ==
    LET e == extract_task_id(r.create.response)
    IN  IF r.create.answer = "200" /\ e.ok THEN e.val ELSE PyNone

\* A call at position p that has sent the requests n to the remote r: once
\* past the submission it has sent exactly one POST, its first request, and
\* every poll carries the id that POST was answered with.
CreatedOnceThenOwnPolls(p, n, r) ==
    /\ p = "start" => n = <<>>
    /\ p # "start" =>
         /\ Len(n) >= 1
         /\ n[1].method = "POST"
         /\ \A i \in 2..Len(n) : n[i].method # "POST"
    /\ \A i \in 1..Len(n) : IsPoll(n[i]) => n[i].url[2] = IssuedId(r)

\* C12: each execute_and_wait call invokes create_task exactly once, before
\* any poll and never again, and every poll carries the task id its own
\* create_task returned, also when two calls run concurrently.
C12_CreateOnceOwnTaskId ==
    /\ CreatedOnceThenOwnPolls(pc, net, remote)
    /\ CreatedOnceThenOwnPolls(peer.pc, peer.net, peer.remote)

\* Both calls were given different ids, each has polled twice and is
\* waiting for its next poll.
C12_Witness ==
    /\ IssuedId(remote) # IssuedId(peer.remote)
    /\ polls >= 2
    /\ peer.polls >= 2
    /\ pc = "sleep"
    /\ peer.pc = "sleep"

---------------------------------------------------------------------------
(* Claims about execute_batch (SpecBatch) *)

\* The image stored behind a URL (None: no image there).
ImageAt(u) ==
    CASE u = UrlA -> "image-A"
      [] u = UrlB -> "image-B"
      [] OTHER    -> PyNone

\* What the slot of a parameter set must hold: the image the remote ends up
\* serving for it, None when the task fails in any way (no credential, the
\* submission refused, no status answer, a failed or unknown status, the
\* budget used up, nothing or no image to download).
ExpectedSlot(key, mw, r) ==
    LET last == r.polls[Len(r.polls)]
    IN  IF /\ key # NoKey
           /\ mw > 0
           /\ r.create.answer = "200"
           /\ \E c \in 1..NumCandidates : last.answers[c] = "200"
           /\ last.body.status \in SuccessWords
           /\ last.body.hasGenerated
        THEN ImageAt(ReferencedUrl(last.body.generated))
        ELSE PyNone

NumPosts == Cardinality({i \in 1..Len(net) : net[i].method = "POST"})

---------------------------------------------------------------------------
(* Claims about the confirmation dialog (SpecConfirm) *)

\* The request_confirmation calls that have returned after sending their
\* request.
ReturnedWaiters ==
    {t \in Threads : waiter[t].pc = "returned" /\ waiter[t].sent = "ok"}
\* When the first response to t's request was written (-1: never), and
\* whether that was before t's deadline.
FirstResponseAt(t) == handler.log[waiter[t].request_id].first_at
AnsweredInTime(t) ==
    /\ FirstResponseAt(t) >= 0
    /\ FirstResponseAt(t) - waiter[t].start_time < ConfirmDeadline

\* C16: without a response within 60 seconds request_confirmation returns
\* false, and once it has returned, for whatever reason, the response table
\* holds no entry for its request id, whatever responses (late ones,
\* duplicates, unknown ids) arrive before or afterwards.
C16_NoEntryLeftAfterReturn ==
    \A t \in ReturnedWaiters :
        /\ ~AnsweredInTime(t) => waiter[t].result = PyFalse
        /\ confirmation_responses[waiter[t].request_id] = Absent

\* C17: under every interleaving of the waiter and the handler, a response
\* written before the 60 second deadline is returned by request_confirmation,
\* with its value; it is never dropped between the waiter's last check and
\* its deadline test.
C17_ResponseInTimeIsReturned ==
    \A t \in ReturnedWaiters :
        AnsweredInTime(t) =>
            /\ waiter[t].how = "response"
            /\ waiter[t].result \in handler.log[waiter[t].request_id].values

\* C18: when the channel to the front end is unavailable (no server, or the
\* send fails), request_confirmation returns true at once, without waiting
\* and without touching the response table.
C18_AutoConfirmWithoutChannel ==
    [][\A t \in Threads :
          (waiter[t].pc = "idle" /\ waiter'[t].pc # "idle"
           /\ waiter'[t].sent # "ok")
          => /\ waiter'[t].pc = "returned"
             /\ waiter'[t].result = PyTrue
             /\ confirmation_responses' = confirmation_responses
             /\ confirmation_lock' = confirmation_lock
             /\ clock' = clock]_vars

\* A call whose send failed has returned true while the other call waits
\* and a response lies in the table.
C18_Witness ==
    /\ waiter["t1"].sent = "failed"
    /\ waiter["t1"].pc = "returned"
    /\ waiter["t1"].result = PyTrue
    /\ waiter["t2"].pc = "sleep"
    /\ confirmation_responses[UnknownId] # Absent

\* C19: with several requests outstanding each one is resolved only by a
\* response carrying its own request id: a response for one request never
\* makes another one return and never removes the other's entry, and a
\* waiting request does not hold the lock the other needs to be resolved.
C19_ResolvedByOwnIdOnly ==
    [][/\ \A t \in Threads :
            (waiter[t].pc # "returned" /\ waiter'[t].pc = "returned"
             /\ waiter'[t].how = "response")
            => /\ confirmation_responses[uuid4(t)] # Absent
               /\ waiter'[t].result = confirmation_responses[uuid4(t)]
               /\ \A i \in RequestIds \ {uuid4(t)} :
                    confirmation_responses'[i] = confirmation_responses[i]
       /\ \A i \in RequestIds :
            (confirmation_responses[i] # Absent
             /\ confirmation_responses'[i] = Absent)
            => \E t \in Threads : /\ uuid4(t) = i
                                  /\ waiter[t].pc = "check"
                                  /\ waiter'[t].pc = "returned"
       /\ \A t \in Threads :
            waiter[t].pc \in {"sleep", "test", "acquire"}
            => confirmation_lock # t]_vars

\* Both requests were resolved, each by its own response: one confirmed, the
\* other denied.
C19_Witness ==
    /\ waiter["t1"].how = "response"
    /\ waiter["t2"].how = "response"
    /\ waiter["t1"].result = PyTrue
    /\ waiter["t2"].result = PyFalse

\* C20: the response table is read, written and popped only under the
\* confirmation lock; the lock is never held across a sleep or a blocking
\* wait, so that handler and waiter cannot deadlock and whoever waits for
\* the lock waits for one table access of its holder.
C20_LockDiscipline ==
    [][/\ confirmation_lock \in Threads
            => waiter[confirmation_lock].pc = "check"
       /\ confirmation_lock = "handler" => handler.pc = "insert"
       /\ \A t \in Threads : waiter[t].pc = "check" => confirmation_lock = t
       /\ handler.pc = "insert" => confirmation_lock = "handler"
       /\ confirmation_responses' # confirmation_responses
            => confirmation_lock # "free"
       /\ (confirmation_lock # "free" /\ confirmation_lock' # confirmation_lock)
            => confirmation_lock' = "free"
       /\ (confirmation_lock \in Threads
           /\ waiter'[confirmation_lock] # waiter[confirmation_lock])
            => confirmation_lock' = "free"
       /\ (confirmation_lock = "handler" /\ handler' # handler)
            => confirmation_lock' = "free"]_vars

\* The handler and a second request wait for the lock while the first
\* request checks the table.
C20_Witness ==
    /\ confirmation_lock = "t1"
    /\ handler.pc = "acquire"
    /\ waiter["t2"].pc = "acquire"

---------------------------------------------------------------------------
(* Claims about the upscaler nodes (SpecUpscale) *)

\* The upscale call running or made last asked for confirmation and was not
\* confirmed: denied, or no answer by the deadline.
Unconfirmed ==
    /\ upscale.pc = "done"
    /\ upscale.inp.confirm_before_run
    /\ upscale.confirmed = PyFalse

\* The call has called request_confirmation.
Asked == upscale.pc # "idle" /\ waiter[upscale.thread].pc # "idle"

\* C15: an upscaler call with confirm_before_run asks for confirmation only
\* after a cache miss and before anything is submitted; when the answer is a
\* denial or the deadline passes without one, the call submits no task,
\* stores nothing in the cache and returns "cancelled|user" with cost 0.
C15_ConfirmGate ==
    /\ Asked
         => /\ upscale.cached = PyNone
            /\ upscale.inp.confirm_before_run
    /\ (upscale.pc = "confirm") => /\ net = <<>>
                                   /\ cache = upscale.cache_before
    /\ (upscale.pc # "idle" /\ upscale.inp.confirm_before_run /\ net # <<>>)
         => /\ Asked
            /\ waiter[upscale.thread].pc = "returned"
            /\ waiter[upscale.thread].result = PyTrue
    /\ Unconfirmed
         => /\ net = <<>>
            /\ cache = upscale.cache_before
            /\ node_ret = NodeReturn(Tensor(create_error_image), "cancelled",
                                     <<"user">>, 0)

\* A first call was confirmed, ran and stored its image; the second, for
\* the other node, got no answer by the deadline and was cancelled.
C15_Witness ==
    /\ Unconfirmed
    /\ calls = 2
    /\ waiter[upscale.thread].how = "timeout"
    /\ \E k \in UpscaleKeys : cache[k].image # Absent
    /\ \E t \in Threads : waiter[t].how = "response" /\ waiter[t].result = PyTrue

---------------------------------------------------------------------------
(* Claims about the cache key (SpecKey) *)

KeysMade == fp.pc = "done"

\* C21: the cache key is a function of the keys and values of the
\* parameter dict only: the same dict gives the same key in every call and
\* process, in whatever order its keys were inserted.
C21_KeyOfContentOnly ==
    fp.pc \in {"second", "done"} => fp.key_again = fp.key_a

\* The dict was built again in another order than the first time.
C21_Witness ==
    /\ KeysMade
    /\ fp.again # node_cache_key_params(fp.a)
    /\ fp.a.node = "creative"

\* The nodes that take a seed, and those that take an image.
SeededNodes == {"mystic", "creative", "precision"}
ImageNodes == {"creative", "precision", "remove_bg"}
SameBytes(i, j) == i.head = j.head /\ i.tail = j.tail

\* The two requests differ in the one field named at most.
SameButSeed(a, b) == a.node = b.node /\ SameBytes(a.image, b.image)
SameButImage(a, b) == a.node = b.node /\ a.seed = b.seed

\* C22: for every node that takes a seed, two requests that differ only in
\* the seed get different keys, and two requests with the same parameters
\* and seed get the same key, also when the image is another object with the
\* same bytes.
C22_SeedInKey ==
    (KeysMade /\ fp.a.node \in SeededNodes /\ SameButSeed(fp.a, fp.b))
    => (fp.key_a = fp.key_b <=> fp.a.seed = fp.b.seed)

\* Two calls of an upscaler with one seed and two copies of one image; and
\* two calls of generate, one with a seed and one with seed -1.
C22_Witness ==
    /\ KeysMade
    /\ SameButSeed(fp.a, fp.b)
    /\ \/ /\ fp.a.node = "precision"
          /\ fp.a.seed = fp.b.seed
          /\ fp.a.image.obj # fp.b.image.obj
       \/ /\ fp.a.node = "mystic"
          /\ fp.a.seed = "-1"
          /\ fp.b.seed = "1"

\* C23: the image is in the key as a hash of its content: two requests of
\* an upscaler or of remove_bg whose images differ anywhere in their bytes,
\* all else equal, get different image hashes and so different keys.
C23_ImageContentInKey ==
    (KeysMade /\ fp.a.node \in ImageNodes /\ SameButImage(fp.a, fp.b)
     /\ ~SameBytes(fp.a.image, fp.b.image))
    => fp.key_a # fp.key_b

---------------------------------------------------------------------------
(* Claims about the cache called directly (SpecCache) *)

\* The metadata file of a key holds the pair.
Persisted(c, key, name, value) ==
    /\ c[key].has_meta
    /\ ~c[key].corrupt
    /\ dict_get(c[key].metadata, name) = value

\* The step is a lookup that follows a store of the same key at once, and
\* neither met an I/O error.
LookupAfterStore ==
    /\ job.op = "save"
    /\ job.io = "ok"
    /\ job'.op = "lookup"
    /\ job'.key = job.key
    /\ job'.day = job.day
    /\ job'.disk = "ok"

\* C24: for every parameter set, image and extra metadata, a
\* save_to_cache that completes without I/O error followed at once by
\* get_cached of the same parameters returns the image stored, and the
\* metadata file holds every key of the extra metadata with the value
\* passed, and the timestamp, the parameter set and the image size.
C24_StoreThenLookup ==
    [][LookupAfterStore =>
         /\ job'.image = job.image
         /\ \A i \in 1..Len(job.extra) :
              Persisted(cache, job.key, job.extra[i][1], job.extra[i][2])
         /\ Persisted(cache, job.key, "timestamp", isoformat(job.day))
         /\ Persisted(cache, job.key, "params", job.key.md5)
         /\ Persisted(cache, job.key, "image_size", <<"size", job.image>>)]_vars

\* The step is a lookup.
Lookup == job'.op = "lookup" /\ job'.n = job.n + 1

\* What a lookup can find of an entry: a file of the two is missing; the
\* metadata cannot be parsed or holds no date; it is older than max_age.
Missing(e) == e.image = Absent \/ ~e.has_meta
Unparsable(e) ==
    /\ ~Missing(e)
    /\ \/ e.corrupt
       \/ ~fromisoformat(dict_get(e.metadata, "timestamp")).ok
TooOld(e, t) ==
    /\ ~Missing(e)
    /\ ~Unparsable(e)
    /\ t - fromisoformat(dict_get(e.metadata, "timestamp")).val
         > DefaultMaxAgeDays

\* C25 as stated: has_cached and get_cached report an entry as absent
\* exactly when its image or metadata is missing or its age is greater than
\* the maximum, and a lookup changes no cache file.
C25_AbsentExactlyWhen ==
    [][Lookup =>
         LET e == cache[job'.key]
             absent == Missing(e) \/ TooOld(e, today)
         IN  /\ job'.has = ~absent
             /\ (job'.image = PyNone) = absent
             /\ cache' = cache]_vars

\* C25, amended: has_cached reports an entry as absent exactly when its
\* image or metadata is missing, its metadata cannot be parsed or holds no
\* date, or its age is greater than the maximum; get_cached reports it as
\* absent in these cases and when the image file cannot be opened; a lookup
\* changes no cache file, so an expired entry stays on disk.
C25_AbsentWhenMissingUnreadableOrOld ==
    [][Lookup =>
         LET e == cache[job'.key]
             absent == Missing(e) \/ Unparsable(e) \/ TooOld(e, today)
         IN  /\ job'.has = ~absent
             /\ (job'.image = PyNone) = (absent \/ job'.disk # "ok")
             /\ cache' = cache]_vars

\* A lookup has reported an expired entry as absent, and its files are
\* there; another has reported an entry with broken metadata as absent.
C25_Witness ==
    /\ job.op = "lookup"
    /\ job.image = PyNone
    /\ job.day = today
    /\ \/ /\ TooOld(cache[job.key], today)
          /\ cache[job.key].whole
          /\ job.disk = "ok"
       \/ Unparsable(cache[job.key])

\* The step is a sweep in which no os.remove fails.
Sweep == job'.op = "clear" /\ job'.n = job.n + 1 /\ job'.io = "ok"

\* The entry has a timestamp, and it is older, or younger, than d days at
\* time t.
Stamped(e) ==
    /\ e.has_meta
    /\ ~e.corrupt
    /\ fromisoformat(dict_get(e.metadata, "timestamp")).ok
OlderThan(e, d, t) ==
    /\ Stamped(e)
    /\ fromisoformat(dict_get(e.metadata, "timestamp")).val < t - d
YoungerThan(e, d, t) ==
    /\ Stamped(e)
    /\ fromisoformat(dict_get(e.metadata, "timestamp")).val > t - d

\* C26: from any reachable state of the cache, clear_cache() removes every
\* entry; clear_cache(d) removes every entry whose timestamp is older than
\* d days together with its image, removes no entry that is younger, and
\* counts the entries it removed; afterwards no entry older than d days is
\* left.
C26_Sweep ==
    [][Sweep =>
         IF job'.all
         THEN \A k \in CacheKeys : cache'[k] = NoEntry
         ELSE LET d == job'.older_than_days
              IN  /\ \A k \in CacheKeys :
                       OlderThan(cache[k], d, today) => cache'[k] = NoEntry
                  /\ \A k \in CacheKeys :
                       YoungerThan(cache[k], d, today) => cache'[k] = cache[k]
                  /\ job'.cleared =
                       Cardinality({k \in CacheKeys : /\ cache[k].has_meta
                                                      /\ ~cache'[k].has_meta})
                  /\ \A k \in CacheKeys : ~OlderThan(cache'[k], d, today)]_vars

---------------------------------------------------------------------------
(* Claims about the cache in the node calls (SpecNode, SpecUpscale) *)

\* generate is called with caching on and the lookup of its entry fails:
\* the metadata cannot be parsed, the image file cannot be opened, or the
\* image file was not written to its end.
LookupFails(inp) ==
    LET e == cache[get_cache_key(cache_key_params(inp))]
    IN  /\ calls' = calls + 1
        /\ call'.inp = inp
        /\ inp.use_cache
        /\ \/ Unparsable(e)
           \/ /\ has_cached(cache, get_cache_key(cache_key_params(inp)), today,
                            DefaultMaxAgeDays)
              /\ (call'.disk = "unreadable" \/ ~e.whole)

\* generate returns after execute_and_wait gave it the image.
StoresResult == pc = "returned" /\ pc' = "idle" /\ call.inp.use_cache

\* C27: a failure of a cache read or write stays inside the cache: a
\* lookup that fails is a miss and the node call goes on to the remote
\* call; a store that fails is skipped and the node call returns its
\* successful result.
C27_CacheFailuresAreMisses ==
    [][/\ \A inp \in MysticInputs :
            LookupFails(inp) => /\ pc' = "start"
                                /\ node_ret' = NoReturn
                                /\ cache' = cache
       /\ StoresResult => /\ node_ret'.image = Tensor(outcome.val)
                          /\ node_ret'.task_info.kind = "success"]_vars

\* The key of the upscale or remove_bg call made last.
CallKey(u) ==
    IF u.inp.kind = "remove_bg" THEN remove_bg_cache_key
    ELSE upscale_cache_key(u.inp)

\* The image behind a URL, when there is one.
Served(url, image) ==
    \/ url = UrlA /\ image = "image-A"
    \/ url = UrlB /\ image = "image-B"

\* The remote work of the call made last has succeeded: an upscale task was
\* polled and seen completed, a remove_bg request was answered; the result
\* was downloaded and is the image behind the URL.
RemoteSucceeded ==
    /\ outcome'.ok
    /\ downloads' # <<>>
    /\ Served(downloads'[Len(downloads')].s, outcome'.val)
    /\ net' # <<>>
    /\ upscale'.inp.kind # "remove_bg"
         => /\ polls' > 0
            /\ status'.state \in SuccessStates
            /\ pc = "returned"

\* C28: a cache entry is written only after the remote work has succeeded
\* and its result was downloaded and decoded, and only for the key of the
\* call; a call that ends in an error or is cancelled (remote failure,
\* unknown state, missing result, poll or download error, timeout, denied
\* confirmation) leaves the cache as it found it.
C28_StoreOnlyAfterSuccess ==
    [][/\ cache' # cache
            => /\ upscale'.pc = "done"
               /\ RemoteSucceeded
               /\ node_ret'.task_info.kind = "success"
               /\ upscale'.inp.confirm_before_run
                    => upscale'.confirmed = PyTrue
               /\ \A k \in DOMAIN cache :
                    cache'[k] # cache[k] => k = CallKey(upscale')
       /\ (upscale'.pc = "done"
           /\ node_ret'.task_info.kind \in {"error", "cancelled"})
            => cache' = upscale'.cache_before]_vars

\* A remove_bg call has stored its result and an upscale call after it has
\* failed and stored nothing, or the other way round.
C28_Witness ==
    /\ upscale.pc = "done"
    /\ calls = 2
    /\ node_ret.task_info.kind = "error"
    /\ ~outcome.ok
    /\ cache = upscale.cache_before
    /\ \E k \in DOMAIN cache : k # CallKey(upscale) /\ cache[k].whole

---------------------------------------------------------------------------
(* Claims about node calls that share the cache (SpecShare) *)

\* C29: there is one entry for a key and it does not change once it is
\* made: whatever the interleaving of the calls, once a lookup for a key has
\* returned an image, every later lookup for that key returns the same image
\* or none.  (No entry expires and none is swept in this specification.)
C29_EntryNeverChanges ==
    \A t \in Threads :
      job.run[t].result \in CacheImages
        => job.run[t].result = job.seen[job.run[t].key]

\* C30: a lookup that runs while other calls store returns none or an image
\* that one store wrote to its end, never an entry whose image is still
\* being written.
C30_LookupSeesWholeImages ==
    \A t \in Threads : job.run[t].result \in CacheImages \cup {PyNone}

---------------------------------------------------------------------------
(* Claims about what the node calls return (SpecUpscale, SpecNode) *)

\* A node call ends in this step and its remote work has failed: an upscale
\* or generate call whose execute_and_wait raised, or a remove_bg call
\* whose request, download or decoding raised.
EndsFailed ==
    /\ ~outcome'.ok
    /\ pc' = "idle"
    /\ pc = "raised" \/ calls' = calls + 1

\* C31: every node call whose remote work fails, in whatever way, returns
\* normally: the tuple holds the error image, a status that is "error|"
\* followed by the message of the failure, and cost 0.0; nothing is raised
\* to the caller of the node.
C31_FailureReturnsErrorTuple ==
    [][/\ EndsFailed
            => /\ node_ret'.image = Tensor(create_error_image)
               /\ node_ret'.task_info.kind = "error"
               /\ node_ret'.task_info.detail = <<outcome'.msg, outcome'.detail>>
               /\ node_ret'.cost = 0
       /\ (pc = "raised" /\ pc' # "raised") => EndsFailed]_vars

\* The second call, an upscale call, has ended after its wait ran out.
C31_Witness ==
    /\ calls = 2
    /\ upscale.pc = "done"
    /\ upscale.inp.kind # "remove_bg"
    /\ pc = "idle"
    /\ ~outcome.ok
    /\ outcome.type = "TimeoutError"
    /\ node_ret.task_info.kind = "error"
    /\ node_ret.image = Tensor(create_error_image)

\* How the upscale or remove_bg call made last has ended.
CacheHit == upscale.cached \notin {PyNone, TruncatedImage}
Denied ==
    /\ upscale.cached = PyNone
    /\ upscale.inp.confirm_before_run
    /\ upscale.confirmed # PyTrue
RemoteCompleted == outcome.ok /\ outcome # NoResult
TimedOut == ~outcome.ok /\ outcome.type = "TimeoutError"

\* The outcome kind the status string is to name.
OutcomeKind ==
    IF CacheHit THEN "cached"
    ELSE IF Denied THEN "cancelled"
    ELSE IF RemoteCompleted THEN "success"
    ELSE IF TimedOut THEN "timeout"
    ELSE "error"

\* C32: the status string a node call returns names the kind of outcome:
\* "success" after a completed remote task, "cached" after a cache hit,
\* "cancelled|user" after a denied confirmation, "timeout" when the wait
\* budget was exceeded, and "error" for every other failure.
C32_StatusNamesOutcome ==
    upscale.pc = "done"
      => /\ node_ret.task_info.kind = OutcomeKind
         /\ Denied => node_ret.task_info.detail = <<"user">>

---------------------------------------------------------------------------
(* Claims about the wait budget and the polls (Spec) *)

\* A status poll starts in this step.
PollStarts == polls' = polls + 1

\* The time since the submission, on the wall clock, has reached max_wait.
BudgetReached == now - start_time >= max_wait * TicksPerSec

\* C33: a status poll is issued only while the wall-clock time elapsed
\* since the submission is less than max_wait: no poll starts once that time
\* has reached max_wait, and with max_wait <= 0 the call raises TimeoutError
\* right after the submission without any poll.
C33_PollOnlyWithinBudget ==
    [][/\ PollStarts => ~BudgetReached
       /\ (pc = "loop" /\ max_wait <= 0)
            => /\ polls = 0
               /\ pc' = "raised"
               /\ outcome' = Raise("TimeoutError", "Task timeout", "")]_vars

---------------------------------------------------------------------------
(* Claims about failing polls in the node calls (SpecUpscale) *)

\* The status poll made last failed: no candidate endpoint answered it.
PollFailed == polls > 0 /\ Succeeding(PollAnswer(remote, polls).answers) = {}

\* The request and the error of the last candidate endpoint of that poll.
LastCandidate == StatusEndpoint(NumCandidates, task_id)
LastCandidateError ==
    http_result(PollAnswer(remote, polls).answers[NumCandidates],
                PollAnswer(remote, polls).body, LastCandidate)

\* C34: a status poll that fails on every candidate endpoint ends
\* execute_and_wait at once with that error: no further poll and no
\* download is made, the task is not submitted again, and the node that
\* called stores nothing in the cache.
C34_PollFailureEndsCall ==
    PollFailed
      => /\ pc \in {"raised", "idle"}
         /\ outcome = LastCandidateError
         /\ net[Len(net)] = Request("GET", LastCandidate, api_key)
         /\ NumPosts = 1
         /\ downloads = <<>>
         /\ cache = upscale.cache_before
         /\ upscale.pc = "done"
              => /\ node_ret.task_info.kind = "error"
                 /\ node_ret.task_info.detail
                      = <<LastCandidateError.msg, LastCandidateError.detail>>

\* An upscale call has ended after its status poll failed, and the entry an
\* earlier call stored is still what the cache holds.
C34_Witness ==
    /\ PollFailed
    /\ upscale.pc = "done"
    /\ calls = 2
    /\ node_ret.task_info.kind = "error"
    /\ \E k \in DOMAIN cache : cache[k].whole /\ cache[k].has_meta

---------------------------------------------------------------------------
(* Claims about calls on one node instance (SpecInstance) *)

\* A request to the API, which is sent with the key header, and not the
\* download of a result from the URL the API named.
ApiRequest(rq) == rq.url \notin Urls

\* C35: every request to the API made for a node call carries the API key
\* that call was given, also when calls with different keys run at the
\* same time or take turns on one node instance.
C35_RequestsCarryOwnKey ==
    \A t \in Threads :
      \A i \in 1..Len(job.run[t].sent) :
        ApiRequest(job.run[t].sent[i])
          => job.run[t].sent[i].key = job.run[t].api_key

---------------------------------------------------------------------------
(* Claims about the status events of an upscale call (SpecLastCall) *)

\* The events sent so far for the upscale call under way or made last.
StatusEvents ==
    IF upscale.pc = "running"
    THEN polling_events(upscale.events, Len(reports))
    ELSE upscale.events

TerminalEvents == {"cached", "completed", "error"}

\* What the cache holds once the call's save_to_cache has run, whether or
\* not every write of it got through.
AfterStore ==
    {save_to_cache(upscale.cache_before, upscale_cache_key(upscale.inp),
                   outcome.val, upscale_extra_metadata(upscale.inp), today, io) :
       io \in WriteOutcomes}

\* C36: the status events of an upscale call follow one order: "estimate"
\* comes first; exactly one of "cached", "completed" and "error" is sent,
\* and nothing after it; "polling" comes only after "processing" and before
\* that last event; "completed" is sent only after the result was stored;
\* a denied confirmation sends "error" and never "processing".
C36_StatusEventOrder ==
    (HAS_SERVER /\ upscale.pc # "idle" /\ upscale.inp.kind # "remove_bg")
      => LET ev == StatusEvents
             n == Len(ev)
         IN  /\ n > 0
             /\ ev[1] = "estimate"
             /\ \A i \in 1..n : ev[i] \in TerminalEvents => i = n
             /\ upscale.pc = "done" => ev[n] \in TerminalEvents
             /\ \A i \in 1..n :
                  ev[i] = "polling"
                    => \E j \in 1..(i - 1) : ev[j] = "processing"
             /\ ev[n] = "completed" => cache \in AfterStore
             /\ (upscale.pc = "done" /\ Denied)
                  => /\ ev[n] = "error"
                     /\ \A i \in 1..n : ev[i] # "processing"

---------------------------------------------------------------------------
(* Claims about calls that do not use the cache (SpecOneCache) *)

\* A generate call, or a remove_bg call, is made in this step.
GenerateCalled == calls' = calls + 1 /\ upscale' = upscale
RemoveBgCalled == calls' = calls + 1 /\ upscale' # upscale

\* A generate call ends in this step.
GenerateEnds == pc \in {"returned", "raised"} /\ pc' = "idle"

\* C37: with use_cache off a generate or remove_bg call neither reads nor
\* writes the cache: it always goes on to the remote call, never returns a
\* cached image, returns the estimated cost, which is not zero, when
\* generate succeeds, and leaves every entry of the cache as it is, the
\* entry of its own key included.
C37_NoCacheWhenOff ==
    [][/\ (GenerateCalled /\ ~call'.inp.use_cache)
            => /\ pc' = "start"
               /\ node_ret' = NoReturn
               /\ cache' = cache
       /\ (GenerateEnds /\ ~call.inp.use_cache)
            => /\ cache' = cache
               /\ pc = "returned"
                    => /\ node_ret'.task_info.kind = "success"
                       /\ node_ret'.image = Tensor(outcome.val)
                       /\ node_ret'.cost = estimate_cost(call.inp.resolution,
                                                         call.inp.num_images)
                       /\ node_ret'.cost > 0
       /\ (RemoveBgCalled /\ ~upscale'.inp.use_cache)
            => /\ cache' = cache
               /\ outcome' # NoResult
               /\ api_key \in GoodKeys
                    => net' # <<>> /\ net'[1].method = "POST"
               /\ node_ret'.task_info.kind
                    = (IF outcome'.ok THEN "success" ELSE "error")
               /\ outcome'.ok => node_ret'.image = Tensor(outcome'.val)]_vars

\* A generate call without use_cache has returned a new image and its cost
\* while the cache still holds the entry, with another image, that an
\* earlier call with the same parameters stored.
C37_Witness ==
    /\ pc = "idle"
    /\ calls > 1
    /\ ~call.inp.use_cache
    /\ upscale.pc = "idle"
    /\ node_ret.task_info.kind = "success"
    /\ node_ret.cost > 0
    /\ LET e == cache[get_cache_key(cache_key_params(call.inp))]
       IN  /\ e.whole
           /\ e.has_meta
           /\ Tensor(e.image) # node_ret.image

---------------------------------------------------------------------------
(* Claims about the two formats of a status response (Spec) *)

\* What the claim gives for a response without the data envelope: the
\* top-level status in lower case, or 'unknown'; result or output_url, neither
\* of which the responses here carry; the top-level error.
TopLevelFields(b) ==
    [state |-> IF b.status = Absent THEN "unknown" ELSE Lower(b.status),
     output_url |-> JNone,
     error |-> IF b.error = Absent THEN PyNone ELSE b.error]

\* What it gives for a response with the envelope whose status is a string
\* and whose generated field, if there, is a list.
EnvelopeFields(b) ==
    [state |-> state_map(Lower(IF b.status = Absent THEN "" ELSE b.status)),
     output_url |-> IF b.hasGenerated /\ Truthy(b.generated)
                    THEN b.generated.items[1] ELSE JNone,
     error |-> IF b.error = Absent THEN PyNone ELSE b.error]

\* C38: _parse_status handles both formats of a response: with a data
\* envelope it reads data.status, data.generated and data.error; without one
\* it falls back to the top-level fields, state being the status in lower
\* case or 'unknown', and does not raise.
C38_ParseBothFormats ==
    (/\ Answered
     /\ LastPolled.status # PyNone
     /\ ~LastPolled.hasGenerated \/ LastPolled.generated.t = "list")
    => /\ status = IF LastPolled.env THEN EnvelopeFields(LastPolled)
                   ELSE TopLevelFields(LastPolled)
       /\ ~outcome.ok => outcome.type \notin {"UnboundLocalError", "KeyError",
                                              "AttributeError"}

---------------------------------------------------------------------------
(* Claims about a call that finds an expired entry (SpecNode) *)

\* The key of the call made in this step, and of the call that is running.
NewKey == get_cache_key(cache_key_params(call'.inp))
RunningKey == get_cache_key(cache_key_params(call.inp))

\* The day an entry was stored, for an entry whose files are both there and
\* were written to their end.
Sound(e) == e.image # Absent /\ e.whole /\ e.has_meta /\ ~e.corrupt
StoredOn(e) == dict_get(e.metadata, "timestamp").day
Expired(e, t) == Sound(e) /\ t - StoredOn(e) > DefaultMaxAgeDays

\* The entries whose metadata names the parameters p.
EntriesOf(c, p) ==
    {k \in DOMAIN c : c[k].has_meta /\ ~c[k].corrupt
                      /\ dict_get(c[k].metadata, "params") = p}

\* C39: a call that uses the cache and finds an expired entry for its
\* parameters misses and goes to the remote; it submits the task exactly
\* once; when it succeeds, the entry of its key is, unless the store broke
\* off and left it a miss, the new image with the day of the store, and a
\* call with the same parameters made while such an entry is young enough
\* returns that image from the cache; and no parameters ever have two
\* entries.
C39_ExpiredEntryReplaced ==
    [][/\ (calls' = calls + 1 /\ call'.inp.use_cache
           /\ Expired(cache[NewKey], today))
            => /\ pc' = "start"
               /\ node_ret' = NoReturn
               /\ cache' = cache
       /\ NumPosts' <= 1
       /\ (pc = "returned" /\ pc' = "idle" /\ call.inp.use_cache
           /\ Expired(cache[RunningKey], today))
            => /\ NumPosts = 1
               /\ node_ret'.task_info.kind = "success"
               /\ node_ret'.image = Tensor(outcome.val)
               /\ \A k \in DOMAIN cache \ {RunningKey} : cache'[k] = cache[k]
               /\ has_cached(cache', RunningKey, today, DefaultMaxAgeDays)
                    => /\ Sound(cache'[RunningKey])
                       /\ cache'[RunningKey].image = outcome.val
                       /\ StoredOn(cache'[RunningKey]) = today
       /\ (calls' = calls + 1 /\ call'.inp.use_cache /\ call'.disk = "ok"
           /\ Sound(cache[NewKey])
           /\ today - StoredOn(cache[NewKey]) <= DefaultMaxAgeDays)
            => /\ pc' = "idle"
               /\ node_ret' = NodeReturn(Tensor(cache[NewKey].image),
                                         "cached_result", <<>>, 0)
               /\ cache' = cache
       /\ \A k \in NodeKeys :
            Sound(cache'[k])
              => EntriesOf(cache', dict_get(cache'[k].metadata, "params"))
                   = {k}]_vars

\* A call that found an expired entry for its parameters has submitted its
\* task once and has the new image in hand, the expired entry still being
\* in the cache.
C39_Witness ==
    /\ pc = "returned"
    /\ calls > 1
    /\ call.inp.use_cache
    /\ Expired(cache[RunningKey], today)
    /\ NumPosts = 1
    /\ outcome.val # cache[RunningKey].image

====
